---- MODULE Spec2Model ----
(***************************************************************************)
(* Model of the vote path, the result path and the refresher of the Online *)
(* Poll System (src/polls/models.py, src/polls/serializers.py,             *)
(* src/polls/views.py and, under src/polls/management/commands/,           *)
(* update_poll_results.py).                                                *)
(*                                                                         *)
(* The database runs in autocommit mode (no transaction.atomic, no         *)
(* select_for_update and no F() expression anywhere in src/), so every ORM *)
(* statement is one atomic step and the steps of concurrent requests       *)
(* interleave freely.                                                      *)
(***************************************************************************)
EXTENDS Integers, FiniteSets, Sequences, TLC

VARIABLES
    now,         \* timezone.now(), in abstract ticks
    poll,        \* the Poll rows: poll id -> row
    vote_count,  \* PollOption.vote_count column: option id -> integer
    votes,       \* the Vote rows (a set of records)
    req,         \* the cast_vote requests: slot -> request state
    dispatched,  \* update_poll_results_async.delay calls made: poll id -> count
    cache,       \* django cache: poll id -> NoEntry or a stored snapshot
    reader,      \* the poll_results requests: slot -> request state
    task,        \* the update_poll_results_async tasks: slot -> task state
    poll_result, \* the PollResult rows: poll id -> NoResult or a row
    command,     \* the run of the update_poll_results management command
    editor       \* the PATCH request of a poll's creator (PollDetailView)

vars == <<now, poll, vote_count, votes, req, dispatched, cache, reader, task,
          poll_result, command, editor>>

(***************************************************************************)
(* Bounds of the model.                                                    *)
(***************************************************************************)
NumReqs == 2      \* cast_vote requests (each slot serves one request)
MaxTime == 1      \* the clock runs over 0..MaxTime
NumReaders == 1   \* concurrent poll_results requests (slots are reused)
MaxVotes == 7     \* the counter values 0..MaxVotes that a snapshot is computed from

None == "None"        \* Python's None, for the string-valued fields
NoTime == -1          \* expires_at = None (the column is null=True)
NoEntry == [poll_id |-> "None"]  \* cache.get found nothing
CacheTimeout == 300              \* cache.set(..., timeout=300), in seconds
NoResult == [exists |-> FALSE, total_votes |-> 0]  \* no PollResult row

Reqs == 1..NumReqs
Readers == 1..NumReaders
Tasks == 1..NumReqs    \* a request dispatches at most one task
Times == 0..MaxTime

PollIds == {"p1"}
Users == {"u1", "u2"}
Addresses == {"a1", "a2"}
Sessions == {"s1", "s2"}

(***************************************************************************)
(* The PollOption rows.  Text and order are set at creation; only          *)
(* vote_count changes on the vote path.  The rows that exist are the       *)
(* domain of vote_count: o1 and o2 are the options poll p1 is created      *)
(* with, o3 and o4 those that PollCreateSerializer.update puts in their    *)
(* place, and o5 is an option of another poll of the database; o6 and o7   *)
(* are options of other lists that update may be given.                    *)
(***************************************************************************)
OptionIds == {"o1", "o2", "o3", "o4", "o5", "o6", "o7"}
InitialOptions == {"o1", "o2", "o5"}
OptionPoll == [o \in OptionIds |-> IF o = "o5" THEN "p2" ELSE "p1"]
OptionText ==
    [o \in OptionIds |->
        CASE o \in {"o1", "o3", "o7"} -> "Cats"
          [] o \in {"o2", "o4"} -> "Dogs"
          [] o = "o6" -> "cats"
          [] OTHER -> "Birds"]
OptionOrder == [o \in OptionIds |-> IF o \in {"o2", "o4", "o7"} THEN 1 ELSE 0]

\* poll.options: the existing options of poll p
PollOptions(p) == {o \in DOMAIN vote_count : OptionPoll[o] = p}

(***************************************************************************)
(* Texts a vote request may carry, and what value.strip() and the          *)
(* case-insensitive comparison of text__iexact make of them.               *)
(***************************************************************************)
RequestTexts == {" cats", "Dogs", "Birds"}

strip(text) == IF text = " cats" THEN "cats" ELSE text

lower(text) ==
    CASE text = "Cats" -> "cats"
      [] text = "Dogs" -> "dogs"
      [] text = "Birds" -> "birds"
      [] OTHER -> text

iexact(a, b) == lower(a) = lower(b)

(***************************************************************************)
(* Poll.is_expired and Poll.can_vote, on a Poll instance p (a row as it    *)
(* was loaded) and the value t that timezone.now() returns.                *)
(***************************************************************************)
\* The comparison "now >= expires_at": a poll that expires at the very
\* instant of the vote.  C8 tells it from is_expired.
is_expired_inclusive(p, t) ==
    IF p.expires_at = NoTime THEN FALSE ELSE t >= p.expires_at

is_expired(p, t) ==
    IF p.expires_at = NoTime THEN FALSE ELSE t > p.expires_at

can_vote(p, t) == p.is_active /\ ~is_expired(p, t)

(***************************************************************************)
(* VoteSerializer.get_client_ip: the first entry of X-Forwarded-For when   *)
(* the header is non-empty, REMOTE_ADDR otherwise.  The header is modelled *)
(* as the sequence that split(',') yields (empty: header absent).          *)
(***************************************************************************)
get_client_ip(request) ==
    IF request.xff # <<>> THEN Head(request.xff) ELSE request.remote_addr

(***************************************************************************)
(* Request contexts: the authenticated user (None: anonymous), the two     *)
(* address sources and the session key.                                    *)
(***************************************************************************)
Ctx(u, x, a, s) == [user |-> u, xff |-> x, remote_addr |-> a, session_key |-> s]

\* Two authenticated users and one anonymous client.
Contexts ==
    { Ctx("u1", <<>>, "a1", "s1"),
      Ctx("u2", <<>>, "a1", None),
      Ctx(None, <<>>, "a1", "s1") }

\* Anonymous clients: every combination of two addresses and two sessions
\* (one of them behind a proxy), and a client with neither.
AnonContexts ==
    { Ctx(None, <<>>, "a1", "s1"),
      Ctx(None, <<>>, "a1", "s2"),
      Ctx(None, <<"a2", "a1">>, "a1", "s1"),
      Ctx(None, <<>>, "a2", "s2"),
      Ctx(None, <<>>, None, None) }

(***************************************************************************)
(* The queries of the vote path.                                           *)
(***************************************************************************)
\* A lookup over the options of every poll (PollOption.objects rather than
\* poll.options).  C13 tells it from options_iexact.
options_iexact_any_poll(p, value) ==
    {o \in DOMAIN vote_count : iexact(OptionText[o], strip(value))}

\* poll.options.get(text__iexact=value.strip()): the matching options
options_iexact(p, value) ==
    {o \in PollOptions(p) : iexact(OptionText[o], strip(value))}

\* A filter on the wrong column (voter_session=user), which matches no
\* vote of an authenticated user.  C5 tells it from voter_exists.
voter_exists_by_session(p, user) ==
    \E v \in votes : v.poll = p /\ v.voter_session = user

\* poll.votes.filter(voter=user).exists()
voter_exists(p, user) ==
    \E v \in votes : v.poll = p /\ v.voter = user

\* poll.votes.filter(voter_ip=ip).exists()
voter_ip_exists(p, ip) ==
    \E v \in votes : v.poll = p /\ v.voter_ip = ip

\* poll.votes.filter(voter_session=session).exists()
voter_session_exists(p, session) ==
    \E v \in votes : v.poll = p /\ v.voter_session = session

\* A count over all the votes of the option's poll.  C11 tells it from
\* option_votes_count.
option_votes_count_of_poll(o) ==
    Cardinality({v \in votes : v.poll = OptionPoll[o]})

\* option.votes.count()
option_votes_count(o) == Cardinality({v \in votes : v.option = o})

\* poll.votes.count()
poll_votes_count(p) == Cardinality({v \in votes : v.poll = p})

(***************************************************************************)
(* A cast_vote request.  pc is the place the request has reached; poll is  *)
(* the Poll instance loaded by get_object_or_404 (the fields the vote path *)
(* reads: total_votes is overwritten by update_total_votes before any      *)
(* use); option is the PollOption validate_option_text returned; count is  *)
(* the value a count() query returned and that the following save writes.  *)
(* expired_at_load is a history field, read by no action: whether the poll *)
(* had already expired when the request loaded it.                         *)
(***************************************************************************)
NoPoll == [is_active |-> FALSE, expires_at |-> NoTime, allow_multiple_votes |-> FALSE]

IdleReq ==
    [pc |-> "idle", poll_id |-> None, ctx |-> Ctx(None, <<>>, None, None),
     option_text |-> None, poll |-> NoPoll, option |-> None, count |-> 0,
     response |-> None, expired_at_load |-> FALSE]

Instance(row) ==
    [is_active |-> row.is_active, expires_at |-> row.expires_at,
     allow_multiple_votes |-> row.allow_multiple_votes]

\* A finished request: the response, and of the request only whom it came
\* from and which poll it named.
Respond(q, response) ==
    [IdleReq EXCEPT !.pc = "done", !.poll_id = q.poll_id, !.ctx = q.ctx,
                    !.response = response]

\* cast_vote: poll = get_object_or_404(Poll, id=poll_id); the 404 for an id
\* that names no poll.  Slots are interchangeable, so they are taken in
\* order.
cast_vote(r, p, ctx, text) ==
    /\ req[r].pc = "idle"
    /\ IF r = 1 THEN TRUE ELSE req[r - 1].pc # "idle"
    /\ req' = [req EXCEPT ![r] =
                 IF p \notin DOMAIN poll
                 THEN [IdleReq EXCEPT !.pc = "done", !.poll_id = p, !.ctx = ctx,
                                      !.response = "NotFound"]
                 ELSE
                 [IdleReq EXCEPT !.pc = "loaded", !.poll_id = p, !.ctx = ctx,
                                 !.option_text = text,
                                 !.poll = Instance(poll[p]),
                                 !.expired_at_load =
                                     (poll[p].expires_at # NoTime
                                        /\ now > poll[p].expires_at)]]
    /\ UNCHANGED <<now, poll, vote_count, votes, dispatched, cache, reader, task,
                   poll_result, command, editor>>

\* serializer.is_valid(), field level: VoteSerializer.validate_option_text.
\* get() raises DoesNotExist, which becomes the ValidationError, for no
\* match, and MultipleObjectsReturned, which nothing catches, for several.
validate_option_text(r) ==
    /\ req[r].pc = "loaded"
    /\ LET found == options_iexact(req[r].poll_id, req[r].option_text)
       IN  req' = [req EXCEPT ![r] =
                     IF found = {}
                     THEN Respond(@, "InvalidOption")
                     ELSE IF Cardinality(found) > 1
                     THEN Respond(@, "ServerError")
                     ELSE [@ EXCEPT !.pc = "option_ok",
                                    !.option = CHOOSE o \in found : TRUE]]
    /\ UNCHANGED <<now, poll, vote_count, votes, dispatched, cache, reader, task,
                   poll_result, command, editor>>

\* A rejection that dispatches the refresh of the poll all the same.  C29
\* tells it from validate_can_vote.
validate_can_vote_dispatching(r) ==
    /\ req[r].pc = "option_ok"
    /\ req' = [req EXCEPT ![r].pc =
                 IF can_vote(req[r].poll, now) THEN "eligible" ELSE "not_votable"]
    /\ dispatched' = [dispatched EXCEPT ![req[r].poll_id] =
                         IF can_vote(req[r].poll, now) THEN @ ELSE @ + 1]
    /\ UNCHANGED <<now, poll, vote_count, votes, cache, reader, task,
                   poll_result, command, editor>>

\* VoteSerializer.validate: "if not poll.can_vote", the first clock read
validate_can_vote(r) ==
    /\ req[r].pc = "option_ok"
    /\ req' = [req EXCEPT ![r].pc =
                 IF can_vote(req[r].poll, now) THEN "eligible" ELSE "not_votable"]
    /\ UNCHANGED <<now, poll, vote_count, votes, dispatched, cache, reader, task,
                   poll_result, command, editor>>

\* The two reasons tested in the other order (is_active first).  C7 tells
\* it from validate_reason.
validate_reason_active_first(r) ==
    /\ req[r].pc = "not_votable"
    /\ req' = [req EXCEPT ![r] =
                 IF ~req[r].poll.is_active
                 THEN Respond(@, "PollInactive")
                 ELSE Respond(@, "PollExpired")]
    /\ UNCHANGED <<now, poll, vote_count, votes, dispatched, cache, reader, task,
                   poll_result, command, editor>>

\* VoteSerializer.validate: "if poll.is_expired ... else ...", the second
\* clock read, which picks the reason of the rejection
validate_reason(r) ==
    /\ req[r].pc = "not_votable"
    /\ req' = [req EXCEPT ![r] =
                 IF is_expired(req[r].poll, now)
                 THEN Respond(@, "PollExpired")
                 ELSE Respond(@, "PollInactive")]
    /\ UNCHANGED <<now, poll, vote_count, votes, dispatched, cache, reader, task,
                   poll_result, command, editor>>

\* A duplicate check that does not look at allow_multiple_votes.  C10
\* tells it from validate_duplicate.
validate_duplicate_always(r) ==
    /\ req[r].pc = "eligible"
    /\ LET q == req[r]
           ip == get_client_ip(q.ctx)
       IN  req' = [req EXCEPT ![r] =
             IF q.ctx.user # None
             THEN IF voter_exists(q.poll_id, q.ctx.user)
                  THEN Respond(@, "AlreadyVoted")
                  ELSE [@ EXCEPT !.pc = "admitted"]
             ELSE IF ip # None /\ voter_ip_exists(q.poll_id, ip)
                  THEN Respond(@, "AlreadyVoted")
                  ELSE [@ EXCEPT !.pc = "ip_ok"]]
    /\ UNCHANGED <<now, poll, vote_count, votes, dispatched, cache, reader, task,
                   poll_result, command, editor>>

\* A duplicate check that runs the voter_ip query for an authenticated
\* request as well.  C36 tells it from validate_duplicate.
validate_duplicate_by_address(r) ==
    /\ req[r].pc = "eligible"
    /\ LET q == req[r]
           ip == get_client_ip(q.ctx)
       IN  req' = [req EXCEPT ![r] =
             IF q.poll.allow_multiple_votes
             THEN [@ EXCEPT !.pc = "admitted"]
             ELSE IF q.ctx.user # None /\ voter_exists(q.poll_id, q.ctx.user)
             THEN Respond(@, "AlreadyVoted")
             ELSE IF ip # None /\ voter_ip_exists(q.poll_id, ip)
             THEN Respond(@, "AlreadyVoted")
             ELSE [@ EXCEPT !.pc = IF q.ctx.user # None THEN "admitted" ELSE "ip_ok"]]
    /\ UNCHANGED <<now, poll, vote_count, votes, dispatched, cache, reader, task,
                   poll_result, command, editor>>

\* VoteSerializer.validate: the duplicate check.  Authenticated: the
\* voter query.  Anonymous: the voter_ip query (skipped for a falsy
\* address); the voter_session query is the next statement.
validate_duplicate(r) ==
    /\ req[r].pc = "eligible"
    /\ LET q == req[r]
           ip == get_client_ip(q.ctx)
       IN  req' = [req EXCEPT ![r] =
             IF q.poll.allow_multiple_votes
             THEN [@ EXCEPT !.pc = "admitted"]
             ELSE IF q.ctx.user # None
             THEN IF voter_exists(q.poll_id, q.ctx.user)
                  THEN Respond(@, "AlreadyVoted")
                  ELSE [@ EXCEPT !.pc = "admitted"]
             ELSE IF ip # None /\ voter_ip_exists(q.poll_id, ip)
                  THEN Respond(@, "AlreadyVoted")
                  ELSE [@ EXCEPT !.pc = "ip_ok"]]
    /\ UNCHANGED <<now, poll, vote_count, votes, dispatched, cache, reader, task,
                   poll_result, command, editor>>

\* A session check that rejects only a vote matching the address as well
\* (an AND of the two match predicates).  C6 tells it from validate_session.
validate_session_and_ip(r) ==
    /\ req[r].pc = "ip_ok"
    /\ LET q == req[r]
           ip == get_client_ip(q.ctx)
       IN  req' = [req EXCEPT ![r] =
             IF /\ q.ctx.session_key # None
                /\ \E v \in votes : /\ v.poll = q.poll_id
                                    /\ v.voter_session = q.ctx.session_key
                                    /\ v.voter_ip = ip
             THEN Respond(@, "AlreadyVoted")
             ELSE [@ EXCEPT !.pc = "admitted"]]
    /\ UNCHANGED <<now, poll, vote_count, votes, dispatched, cache, reader, task,
                   poll_result, command, editor>>

\* A session check that runs the query for an absent session key as well
\* (voter_session=None matches the votes with no session).  C15 tells it
\* from validate_session.
validate_session_unguarded(r) ==
    /\ req[r].pc = "ip_ok"
    /\ LET q == req[r]
       IN  req' = [req EXCEPT ![r] =
             IF voter_session_exists(q.poll_id, q.ctx.session_key)
             THEN Respond(@, "AlreadyVoted")
             ELSE [@ EXCEPT !.pc = "admitted"]]
    /\ UNCHANGED <<now, poll, vote_count, votes, dispatched, cache, reader, task,
                   poll_result, command, editor>>

\* VoteSerializer.validate: the voter_session query of an anonymous request
validate_session(r) ==
    /\ req[r].pc = "ip_ok"
    /\ LET q == req[r]
       IN  req' = [req EXCEPT ![r] =
             IF q.ctx.session_key # None
                /\ voter_session_exists(q.poll_id, q.ctx.session_key)
             THEN Respond(@, "AlreadyVoted")
             ELSE [@ EXCEPT !.pc = "admitted"]]
    /\ UNCHANGED <<now, poll, vote_count, votes, dispatched, cache, reader, task,
                   poll_result, command, editor>>

\* A vote_data that keeps the address and the session key of an
\* authenticated request as well.  C14 tells it from vote_data.
vote_data_tracked(r) ==
    LET q == req[r]
    IN  [id |-> r, poll |-> q.poll_id, option |-> q.option,
         voter |-> q.ctx.user, voter_ip |-> get_client_ip(q.ctx),
         voter_session |-> q.ctx.session_key]

\* VoteSerializer.create: the vote_data of the request
vote_data(r) ==
    LET q == req[r]
    IN  IF q.ctx.user # None
        THEN [id |-> r, poll |-> q.poll_id, option |-> q.option,
              voter |-> q.ctx.user, voter_ip |-> None, voter_session |-> None]
        ELSE [id |-> r, poll |-> q.poll_id, option |-> q.option,
              voter |-> None, voter_ip |-> get_client_ip(q.ctx),
              voter_session |-> q.ctx.session_key]

\* serializer.save() -> create -> Vote.objects.create -> Vote.save:
\* super().save(), the INSERT
create(r) ==
    /\ req[r].pc = "admitted"
    /\ votes' = votes \cup {vote_data(r)}
    /\ req' = [req EXCEPT ![r].pc = "inserted"]
    /\ UNCHANGED <<now, poll, vote_count, dispatched, cache, reader, task,
                   poll_result, command, editor>>

\* Vote.save -> option.update_vote_count: self.votes.count()
update_vote_count_read(r) ==
    /\ req[r].pc = "inserted"
    /\ req' = [req EXCEPT ![r].pc = "option_counted",
                          ![r].count = option_votes_count(req[r].option)]
    /\ UNCHANGED <<now, poll, vote_count, votes, dispatched, cache, reader, task,
                   poll_result, command, editor>>

\* option.update_vote_count: self.save(update_fields=['vote_count'])
update_vote_count_save(r) ==
    /\ req[r].pc = "option_counted"
    /\ vote_count' = [vote_count EXCEPT ![req[r].option] = req[r].count]
    /\ req' = [req EXCEPT ![r].pc = "option_saved", ![r].count = 0]
    /\ UNCHANGED <<now, poll, votes, dispatched, cache, reader, task,
                   poll_result, command, editor>>

\* Vote.save -> poll.update_total_votes: self.votes.count()
update_total_votes_read(r) ==
    /\ req[r].pc = "option_saved"
    /\ req' = [req EXCEPT ![r].pc = "poll_counted",
                          ![r].count = poll_votes_count(req[r].poll_id)]
    /\ UNCHANGED <<now, poll, vote_count, votes, dispatched, cache, reader, task,
                   poll_result, command, editor>>

\* An update_total_votes that saves the whole Poll instance the request
\* loaded (save() without update_fields).  C37 tells
\* update_total_votes_save from it.
update_total_votes_save_all_fields(r) ==
    /\ req[r].pc = "poll_counted"
    /\ poll' = [poll EXCEPT ![req[r].poll_id] =
                   [is_active |-> req[r].poll.is_active,
                    expires_at |-> req[r].poll.expires_at,
                    allow_multiple_votes |-> req[r].poll.allow_multiple_votes,
                    total_votes |-> req[r].count]]
    /\ req' = [req EXCEPT ![r].pc = "saved", ![r].count = 0]
    /\ UNCHANGED <<now, vote_count, votes, dispatched, cache, reader, task,
                   poll_result, command, editor>>

\* poll.update_total_votes: self.save(update_fields=['total_votes'])
update_total_votes_save(r) ==
    /\ req[r].pc = "poll_counted"
    /\ poll' = [poll EXCEPT ![req[r].poll_id].total_votes = req[r].count]
    /\ req' = [req EXCEPT ![r].pc = "saved", ![r].count = 0]
    /\ UNCHANGED <<now, vote_count, votes, dispatched, cache, reader, task,
                   poll_result, command, editor>>

\* A cast_vote that returns the 201 without dispatching the refresh.  C17
\* tells it from cast_vote_respond.
cast_vote_respond_without_delay(r) ==
    /\ req[r].pc = "saved"
    /\ req' = [req EXCEPT ![r] = Respond(@, "Created")]
    /\ UNCHANGED <<now, poll, vote_count, votes, dispatched, cache, reader, task,
                   poll_result, command, editor>>

\* cast_vote: update_poll_results_async.delay(poll_id), then the 201
cast_vote_respond(r) ==
    /\ req[r].pc = "saved"
    /\ dispatched' = [dispatched EXCEPT ![req[r].poll_id] = @ + 1]
    /\ req' = [req EXCEPT ![r] = Respond(@, "Created")]
    /\ UNCHANGED <<now, poll, vote_count, votes, cache, reader, task,
                   poll_result, command, editor>>

(***************************************************************************)
(* The result path: generate_poll_results and poll_results.                *)
(***************************************************************************)
\* Meta.ordering = ['order', 'text'] of PollOption; TextRank is the
\* place of an option text in the ascending order of the texts (ORDER BY
\* text ASC under a binary collation: capitals before small letters).
TextRank(text) ==
    CASE text = "Birds" -> 0
      [] text = "Cats" -> 1
      [] text = "Dogs" -> 2
      [] OTHER -> 3

\* An ordering by text alone.  C32 tells it from Precedes.
Precedes_by_text(a, b) == TextRank(OptionText[a]) < TextRank(OptionText[b])

Precedes(a, b) ==
    \/ OptionOrder[a] < OptionOrder[b]
    \/ /\ OptionOrder[a] = OptionOrder[b]
       /\ TextRank(OptionText[a]) < TextRank(OptionText[b])

\* poll.options.all(): the options of the poll, in Meta.ordering
RECURSIVE Ordered(_)
Ordered(S) ==
    IF S = {} THEN <<>>
    ELSE LET first == CHOOSE x \in S : \A y \in S \ {x} : ~Precedes(y, x)
         IN  <<first>> \o Ordered(S \ {first})

options_all(p) == Ordered(PollOptions(p))

\* n / d rounded to the nearest integer, ties to even (Python's round)
RoundDiv(n, d) ==
    LET q == n \div d
        twice == 2 * (n % d)
    IN  IF twice < d THEN q
        ELSE IF twice > d THEN q + 1
        ELSE IF q % 2 = 0 THEN q ELSE q + 1

\* A percentage cut after the second decimal instead of rounded.  C22
\* tells it from percentage.
percentage_truncated(count, total_votes) ==
    IF total_votes > 0 THEN (count * 10000) \div total_votes ELSE 0

\* round(vote_count / total_votes * 100, 2) if total_votes > 0 else 0,
\* in hundredths of a percent
percentage(count, total_votes) ==
    IF total_votes > 0 THEN RoundDiv(count * 10000, total_votes) ELSE 0

\* generate_poll_results(poll): total_votes, is_active and expires_at come
\* from the instance the caller loaded; the options and their vote_count
\* from the options query, which runs when the function is called.
generate_poll_results(p, instance) ==
    LET total_votes == instance.total_votes
        opts == options_all(p)
    IN  [poll_id |-> p,
         total_votes |-> total_votes,
         options |-> [i \in 1..Len(opts) |->
                        [id |-> opts[i], text |-> OptionText[opts[i]],
                         vote_count |-> vote_count[opts[i]],
                         percentage |-> percentage(vote_count[opts[i]], total_votes)]],
         is_active |-> instance.is_active,
         is_expired |-> is_expired(instance, now)]

NoRow == [is_active |-> FALSE, expires_at |-> NoTime,
          allow_multiple_votes |-> FALSE, total_votes |-> 0]

IdleReader == [pc |-> "idle", poll_id |-> None, poll |-> NoRow, results |-> NoEntry]

\* cache.set(key, value, timeout): what the cache holds under the key
\* until the timeout has run out
cache_set(value, timeout) == [value |-> value, timeout |-> timeout]

\* poll_results: poll = get_object_or_404(Poll, id=poll_id).  A slot
\* serves one request after another.
poll_results(d, p) ==
    /\ reader[d].pc \in {"idle", "done"}
    /\ reader' = [reader EXCEPT ![d] =
                    [IdleReader EXCEPT !.pc = "loaded", !.poll_id = p,
                                       !.poll = poll[p]]]
    /\ UNCHANGED <<now, poll, vote_count, votes, req, dispatched, cache, task,
                   poll_result, command, editor>>

\* poll_results: results = cache.get(cache_key); a hit is the response
poll_results_get(d) ==
    /\ reader[d].pc = "loaded"
    /\ reader' = [reader EXCEPT ![d] =
                    IF cache[reader[d].poll_id] # NoEntry
                    THEN [IdleReader EXCEPT !.pc = "done",
                                            !.poll_id = reader[d].poll_id,
                                            !.results = cache[reader[d].poll_id].value]
                    ELSE [@ EXCEPT !.pc = "miss"]]
    /\ UNCHANGED <<now, poll, vote_count, votes, req, dispatched, cache, task,
                   poll_result, command, editor>>

\* poll_results: results = generate_poll_results(poll)
poll_results_generate(d) ==
    /\ reader[d].pc = "miss"
    /\ reader' = [reader EXCEPT ![d] =
                    [IdleReader EXCEPT
                       !.pc = "generated", !.poll_id = reader[d].poll_id,
                       !.results = generate_poll_results(reader[d].poll_id,
                                                         reader[d].poll)]]
    /\ UNCHANGED <<now, poll, vote_count, votes, req, dispatched, cache, task,
                   poll_result, command, editor>>

\* A poll_results that returns the computed snapshot without storing it.
\* C18 tells it from poll_results_set.
poll_results_set_skipped(d) ==
    /\ reader[d].pc = "generated"
    /\ reader' = [reader EXCEPT ![d].pc = "done"]
    /\ UNCHANGED <<now, poll, vote_count, votes, req, dispatched, cache, task,
                   poll_result, command, editor>>

\* poll_results: cache.set(cache_key, results, timeout=300), then the 200
poll_results_set(d) ==
    /\ reader[d].pc = "generated"
    /\ cache' = [cache EXCEPT ![reader[d].poll_id] =
                    cache_set(reader[d].results, CacheTimeout)]
    /\ reader' = [reader EXCEPT ![d].pc = "done"]
    /\ UNCHANGED <<now, poll, vote_count, votes, req, dispatched, task,
                   poll_result, command, editor>>

\* The cache drops an entry when its timeout has run out.
cache_expire(p) ==
    /\ cache[p] # NoEntry
    /\ cache' = [cache EXCEPT ![p] = NoEntry]
    /\ UNCHANGED <<now, poll, vote_count, votes, req, dispatched, reader, task,
                   poll_result, command, editor>>

(***************************************************************************)
(* The task update_poll_results_async, run by a worker some time after     *)
(* .delay(poll_id), or never.  After cache.set the task writes the         *)
(* PollResult row, which no request reads (the management command does).   *)
(***************************************************************************)
\* Tasks of poll p that a worker has picked up.
TasksStarted(p) == {t \in Tasks : task[t].pc # "idle" /\ task[t].poll_id = p}

\* update_poll_results_async: poll = Poll.objects.get(id=poll_id); for a
\* poll that is gone, "except Poll.DoesNotExist: pass".  Slots are
\* interchangeable, so they are taken in order.
update_poll_results_async(t, p) ==
    /\ task[t].pc = "idle"
    /\ IF t = 1 THEN TRUE ELSE task[t - 1].pc # "idle"
    /\ Cardinality(TasksStarted(p)) < dispatched[p]
    /\ task' = [task EXCEPT ![t] =
                  IF p \in DOMAIN poll
                  THEN [IdleReader EXCEPT !.pc = "loaded", !.poll_id = p,
                                          !.poll = poll[p]]
                  ELSE [IdleReader EXCEPT !.pc = "done", !.poll_id = p]]
    /\ UNCHANGED <<now, poll, vote_count, votes, req, dispatched, cache, reader,
                   poll_result, command, editor>>

\* update_poll_results_async: results = generate_poll_results(poll)
update_poll_results_async_generate(t) ==
    /\ task[t].pc = "loaded"
    /\ task' = [task EXCEPT ![t] =
                  [IdleReader EXCEPT
                     !.pc = "generated", !.poll_id = task[t].poll_id,
                     !.results = generate_poll_results(task[t].poll_id,
                                                       task[t].poll)]]
    /\ UNCHANGED <<now, poll, vote_count, votes, req, dispatched, cache, reader,
                   poll_result, command, editor>>

\* A task that does not write the cache entry.  C21 tells it from
\* update_poll_results_async_set.
update_poll_results_async_set_skipped(t) ==
    /\ task[t].pc = "generated"
    /\ task' = [task EXCEPT ![t] =
                  [IdleReader EXCEPT !.pc = "cached", !.poll_id = task[t].poll_id]]
    /\ UNCHANGED <<now, poll, vote_count, votes, req, dispatched, cache, reader,
                   poll_result, command, editor>>

\* update_poll_results_async: cache.set(cache_key, results, timeout=300)
update_poll_results_async_set(t) ==
    /\ task[t].pc = "generated"
    /\ cache' = [cache EXCEPT ![task[t].poll_id] =
                    cache_set(task[t].results, CacheTimeout)]
    /\ task' = [task EXCEPT ![t] =
                  [IdleReader EXCEPT !.pc = "cached", !.poll_id = task[t].poll_id]]
    /\ UNCHANGED <<now, poll, vote_count, votes, req, dispatched, reader,
                   poll_result, command, editor>>

\* PollResult.objects.get_or_create(poll=poll) and poll_result.update_results().
\* With no row for the poll, get_or_create inserts one without results_data
\* (a JSONField with neither null=True nor a default): the INSERT fails and
\* the IntegrityError leaves get_or_create.  With a row, update_results reads
\* self.poll from the database and saves its total_votes in the row.
get_or_create_raises(p) == p \notin DOMAIN poll \/ ~poll_result[p].exists

update_results(p) == [exists |-> TRUE, total_votes |-> poll[p].total_votes]

\* update_poll_results_async: the PollResult statements.  The task catches
\* Poll.DoesNotExist only, so the IntegrityError ends it as failed, after
\* cache.set.
update_poll_results_async_store(t) ==
    /\ task[t].pc = "cached"
    /\ LET p == task[t].poll_id
       IN  IF get_or_create_raises(p)
           THEN /\ task' = [task EXCEPT ![t].pc = "failed"]
                /\ UNCHANGED poll_result
           ELSE /\ task' = [task EXCEPT ![t].pc = "done"]
                /\ poll_result' = [poll_result EXCEPT ![p] = update_results(p)]
    /\ UNCHANGED <<now, poll, vote_count, votes, req, dispatched, cache, reader, command,
                   editor>>

TaskStep(t) ==
    \/ \E p \in PollIds : update_poll_results_async(t, p)
    \/ update_poll_results_async_generate(t)
    \/ update_poll_results_async_set(t)
    \/ update_poll_results_async_store(t)

ReadStep(d) ==
    \/ \E p \in PollIds : poll_results(d, p)
    \/ poll_results_get(d)
    \/ poll_results_generate(d)
    \/ poll_results_set(d)

\* No cast_vote request is between its first and its last statement.
NoneInFlight == \A r \in Reqs : req[r].pc \in {"idle", "done"}

(***************************************************************************)
(* Operations that remove vote records.  Both are taken while no           *)
(* submission is in flight, so their statements run with no statement of   *)
(* a submission between them.                                              *)
(***************************************************************************)
\* Vote.delete (the delete view of VoteAdmin): super().delete(), then
\* option.update_vote_count() and poll.update_total_votes()
Vote_delete(v) ==
    /\ NoneInFlight
    /\ v \in votes
    /\ votes' = votes \ {v}
    /\ vote_count' = [vote_count EXCEPT ![v.option] =
                         Cardinality({w \in votes' : w.option = v.option})]
    /\ poll' = [poll EXCEPT ![v.poll].total_votes =
                   Cardinality({w \in votes' : w.poll = v.poll})]
    /\ UNCHANGED <<now, req, dispatched, cache, reader, task, poll_result, command,
                   editor>>

\* Poll.update_total_votes on poll p, the one operation on a poll that
\* recounts from the ledger: total_votes = self.votes.count().  The poll
\* rows after the call.
reconcile(p) == [poll EXCEPT ![p].total_votes = poll_votes_count(p)]

\* Poll.update_total_votes called for repair (Vote.save and Vote.delete
\* are its only callers in src/), with no submission in flight.
Poll_update_total_votes(p) ==
    /\ NoneInFlight
    /\ poll' = reconcile(p)
    /\ UNCHANGED <<now, vote_count, votes, req, dispatched, cache, reader, task,
                   poll_result, command, editor>>

\* The options that update creates for poll p.
NewOptions(p) == IF p = "p1" THEN {"o3", "o4"} ELSE {}

\* PollCreateSerializer.validate_options on the list of the options that
\* are to be created: 2 to 10 options, and "len(option_texts) !=
\* len(set(option_texts))" on the stripped texts, a comparison of the
\* strings as they are.
validate_options(options) ==
    /\ Cardinality(options) >= 2
    /\ Cardinality(options) <= 10
    /\ \A a \in options, b \in options :
          a # b => strip(OptionText[a]) # strip(OptionText[b])

\* PollCreateSerializer.update with options_data (a PATCH by the creator
\* that carries the options only): instance.save() changes nothing,
\* instance.options.all().delete() removes the options and, by
\* on_delete=CASCADE, the votes that reference them (a bulk delete:
\* Vote.delete is not called and total_votes is not recounted), and the
\* new options are created with vote_count 0.
PollCreateSerializer_update(p, options) ==
    /\ NoneInFlight
    /\ validate_options(options)
    /\ \A o \in options : OptionPoll[o] = p
    /\ PollOptions(p) \cap options = {}
    /\ votes' = {v \in votes : v.option \notin PollOptions(p)}
    /\ vote_count' =
          [o \in (DOMAIN vote_count \ PollOptions(p)) \cup options |->
              IF o \in options THEN 0 ELSE vote_count[o]]
    /\ UNCHANGED <<now, poll, req, dispatched, cache, reader, task, poll_result, command,
                   editor>>

(***************************************************************************)
(* Failures of the task queue and of the cache store.  Neither cast_vote   *)
(* nor poll_results catches an exception, so the exception leaves the view *)
(* and the framework answers 500.                                          *)
(***************************************************************************)
\* The response of a poll_results request that raised.
ServerError == [poll_id |-> "ServerError"]

\* cast_vote: update_poll_results_async.delay(poll_id) raises (the broker
\* cannot be reached); serializer.save() has already run
cast_vote_delay_fails(r) ==
    /\ req[r].pc = "saved"
    /\ req' = [req EXCEPT ![r] = Respond(@, "ServerError")]
    /\ UNCHANGED <<now, poll, vote_count, votes, dispatched, cache, reader, task,
                   poll_result, command, editor>>

\* poll_results: cache.get(cache_key) raises
poll_results_get_fails(d) ==
    /\ reader[d].pc = "loaded"
    /\ reader' = [reader EXCEPT ![d] =
                    [IdleReader EXCEPT !.pc = "done",
                                       !.poll_id = reader[d].poll_id,
                                       !.results = ServerError]]
    /\ UNCHANGED <<now, poll, vote_count, votes, req, dispatched, cache, task,
                   poll_result, command, editor>>

\* poll_results: cache.set(cache_key, results, timeout=300) raises
poll_results_set_fails(d) ==
    /\ reader[d].pc = "generated"
    /\ reader' = [reader EXCEPT ![d].pc = "done", ![d].results = ServerError]
    /\ UNCHANGED <<now, poll, vote_count, votes, req, dispatched, cache, task,
                   poll_result, command, editor>>

(***************************************************************************)
(* The management command update_poll_results.                             *)
(***************************************************************************)
IdleCommand ==
    [pc |-> "idle", all |-> FALSE, force |-> FALSE, polls |-> <<>>,
     poll_id |-> None, poll |-> NoRow, results |-> NoEntry,
     updated_count |-> 0, attempted |-> <<>>, written |-> {},
     skipped |-> {}, errors |-> {}, listed |-> {}, report |-> None]

\* The polls of the database the command runs on, in Poll.Meta.ordering
\* ('-created_at': p2 was created after p1).
CommandPolls == {"p1", "p2"}

PollsByCreation == <<"p2", "p1">>

\* Poll.objects.filter(is_active=True), evaluated by "for poll in polls":
\* the rows of the active polls as they are when the loop starts
active_polls ==
    LET ids == SelectSeq(PollsByCreation,
                         LAMBDA p : p \in DOMAIN poll /\ poll[p].is_active)
    IN  [i \in 1..Len(ids) |-> [id |-> ids[i], row |-> poll[ids[i]]]]

\* handle without --poll-id: polls = Poll.objects.filter(is_active=True),
\* updated_count = 0.  listed is a history field: the ids the query gave.
Command_handle(force) ==
    /\ command.pc \in {"idle", "done"}
    /\ command' = [IdleCommand EXCEPT !.pc = "loop", !.all = TRUE,
                                      !.force = force, !.polls = active_polls,
                                      !.listed = {active_polls[i].id :
                                                    i \in DOMAIN active_polls}]
    /\ UNCHANGED <<now, poll, vote_count, votes, req, dispatched, cache, reader,
                   task, poll_result, editor>>

\* handle with --poll-id: poll = Poll.objects.get(id=poll_id), or the
\* "not found" message
Command_handle_poll_id(p, force) ==
    /\ command.pc \in {"idle", "done"}
    /\ command' =
          IF p \in DOMAIN poll
          THEN [IdleCommand EXCEPT !.pc = "check", !.force = force,
                                   !.poll_id = p, !.poll = poll[p],
                                   !.attempted = <<p>>]
          ELSE [IdleCommand EXCEPT !.pc = "done", !.force = force,
                                   !.report = "NotFound"]
    /\ UNCHANGED <<now, poll, vote_count, votes, req, dispatched, cache, reader,
                   task, poll_result, editor>>

\* handle: the next poll of the loop, or the report after the last one
\* ("Successfully updated {updated_count} polls"; with --poll-id the
\* success message, whatever update_poll_results returned)
Command_next ==
    /\ command.pc = "loop"
    /\ command' =
          IF ~command.all
          THEN [command EXCEPT !.pc = "done", !.report = "Updated"]
          ELSE IF command.polls = <<>>
          THEN [command EXCEPT !.pc = "done", !.report = "UpdatedCount"]
          ELSE [command EXCEPT !.pc = "check",
                               !.poll_id = Head(command.polls).id,
                               !.poll = Head(command.polls).row,
                               !.polls = Tail(command.polls),
                               !.attempted = Append(@, Head(command.polls).id)]
    /\ UNCHANGED <<now, poll, vote_count, votes, req, dispatched, cache, reader,
                   task, poll_result, editor>>

\* A check that skips a poll that has no stored result as well.  C24 tells
\* it from up_to_date.
up_to_date_or_absent(stored, instance) ==
    ~stored.exists \/ stored.total_votes = instance.total_votes

\* update_poll_results: "poll_result and poll_result.total_votes ==
\* poll.total_votes", on the row PollResult.objects.filter(poll=poll).first()
\* returned and the Poll instance of the loop
up_to_date(stored, instance) ==
    stored.exists /\ stored.total_votes = instance.total_votes

\* update_poll_results: "if not force:" and the check; return False on a
\* stored result that is up to date
Command_check ==
    /\ command.pc = "check"
    /\ command' =
          IF ~command.force /\ up_to_date(poll_result[command.poll_id], command.poll)
          THEN [command EXCEPT !.pc = "loop", !.skipped = @ \cup {command.poll_id}]
          ELSE [command EXCEPT !.pc = "generate"]
    /\ UNCHANGED <<now, poll, vote_count, votes, req, dispatched, cache, reader,
                   task, poll_result, editor>>

\* update_poll_results: results = generate_poll_results(poll)
Command_generate ==
    /\ command.pc = "generate"
    /\ command' = [command EXCEPT
                     !.pc = "generated",
                     !.results = generate_poll_results(command.poll_id, command.poll)]
    /\ UNCHANGED <<now, poll, vote_count, votes, req, dispatched, cache, reader,
                   task, poll_result, editor>>

\* An update_poll_results that also saves the Poll instance it holds,
\* writing back the total_votes the run read.  C26 tells it from
\* Command_set.
Command_set_saving_poll ==
    /\ command.pc = "generated"
    /\ cache' = [cache EXCEPT ![command.poll_id] =
                    cache_set(command.results, CacheTimeout)]
    /\ poll' = [poll EXCEPT ![command.poll_id].total_votes = command.poll.total_votes]
    /\ command' = [command EXCEPT !.pc = "cached", !.results = NoEntry,
                                  !.written = @ \cup {command.poll_id}]
    /\ UNCHANGED <<now, vote_count, votes, req, dispatched, reader, task,
                   poll_result, editor>>

\* update_poll_results: cache.set(cache_key, results, timeout=300).  written
\* is a history field: the polls whose cache entry this run has written.
Command_set ==
    /\ command.pc = "generated"
    /\ cache' = [cache EXCEPT ![command.poll_id] =
                    cache_set(command.results, CacheTimeout)]
    /\ command' = [command EXCEPT !.pc = "cached", !.results = NoEntry,
                                  !.written = @ \cup {command.poll_id}]
    /\ UNCHANGED <<now, poll, vote_count, votes, req, dispatched, reader, task,
                   poll_result, editor>>

\* An update_poll_results without the "except Exception": the exception
\* ends the run.  C25 tells it from Command_store.
Command_store_uncaught ==
    /\ command.pc = "cached"
    /\ LET p == command.poll_id
       IN  IF get_or_create_raises(p)
           THEN /\ command' = [command EXCEPT !.pc = "done", !.report = "Traceback"]
                /\ UNCHANGED poll_result
           ELSE /\ command' = [command EXCEPT
                                 !.pc = "loop",
                                 !.updated_count = @ + (IF command.all THEN 1 ELSE 0)]
                /\ poll_result' = [poll_result EXCEPT ![p] = update_results(p)]
    /\ UNCHANGED <<now, poll, vote_count, votes, req, dispatched, cache, reader, task,
                   editor>>

\* update_poll_results: the PollResult statements and "return True"; an
\* exception is caught by "except Exception", reported, and gives
\* "return False".  handle adds 1 to updated_count for a True.
Command_store ==
    /\ command.pc = "cached"
    /\ LET p == command.poll_id
       IN  IF get_or_create_raises(p)
           THEN /\ command' = [command EXCEPT !.pc = "loop",
                                              !.errors = @ \cup {p}]
                /\ UNCHANGED poll_result
           ELSE /\ command' = [command EXCEPT
                                 !.pc = "loop",
                                 !.updated_count = @ + (IF command.all THEN 1 ELSE 0)]
                /\ poll_result' = [poll_result EXCEPT ![p] = update_results(p)]
    /\ UNCHANGED <<now, poll, vote_count, votes, req, dispatched, cache, reader, task,
                   editor>>

CommandStep ==
    \/ Command_next
    \/ Command_check
    \/ Command_generate
    \/ Command_set
    \/ Command_store

\* PollDetailView.perform_destroy: instance.delete(), which removes the
\* poll and, by on_delete=CASCADE, its options, its votes and its
\* PollResult row.  Taken while no submission is in flight.
perform_destroy(p) ==
    /\ NoneInFlight
    /\ p \in DOMAIN poll
    /\ poll' = [q \in DOMAIN poll \ {p} |-> poll[q]]
    /\ vote_count' = [o \in DOMAIN vote_count \ PollOptions(p) |-> vote_count[o]]
    /\ votes' = {v \in votes : v.poll # p}
    /\ poll_result' = [poll_result EXCEPT ![p] = NoResult]
    /\ UNCHANGED <<now, req, dispatched, cache, reader, task, command, editor>>

(***************************************************************************)
(* A PATCH of a poll by its creator that carries poll fields and no        *)
(* options (PollDetailView with PollCreateSerializer).  The view loads the *)
(* Poll instance, the serializer validates the data, and update sets the   *)
(* attributes on the instance and saves it: instance.save() has no         *)
(* update_fields, so it writes every column of the row, total_votes        *)
(* included, with the value the instance holds.                            *)
(***************************************************************************)
IdleEditor == [pc |-> "idle", poll_id |-> None, poll |-> NoRow, data |-> <<>>]

\* The validated_data of a PATCH: the fields it carries, with their values.
EditData ==
    { [is_active |-> FALSE], [is_active |-> TRUE],
      [allow_multiple_votes |-> TRUE], [expires_at |-> MaxTime] }

\* validate_expires_at: "if value and value <= timezone.now()" is an error
validate_expires_at(data) ==
    IF "expires_at" \in DOMAIN data /\ data.expires_at # NoTime
    THEN data.expires_at > now
    ELSE TRUE

\* "for attr, value in validated_data.items(): setattr(instance, attr, value)"
setattr_all(instance, data) ==
    [f \in DOMAIN instance |-> IF f \in DOMAIN data THEN data[f] ELSE instance[f]]

\* PollDetailView, PATCH: instance = self.get_object(), then
\* serializer.is_valid(); perform_update finds the creator.  A slot serves
\* one request after another.
PollDetailView_patch(p, data) ==
    /\ editor.pc \in {"idle", "done"}
    /\ p \in DOMAIN poll
    /\ editor' = IF validate_expires_at(data)
                 THEN [pc |-> "valid", poll_id |-> p, poll |-> poll[p], data |-> data]
                 ELSE [IdleEditor EXCEPT !.pc = "done", !.poll_id = p]
    /\ UNCHANGED <<now, poll, vote_count, votes, req, dispatched, cache, reader, task,
                   poll_result, command>>

\* PollCreateSerializer.update: the setattr loop and instance.save(), which
\* writes the whole row from the instance (and inserts it when the row is
\* gone); options_data is empty, so update returns.
PollCreateSerializer_update_save ==
    /\ editor.pc = "valid"
    /\ poll' = [q \in DOMAIN poll \cup {editor.poll_id} |->
                   IF q = editor.poll_id
                   THEN setattr_all(editor.poll, editor.data)
                   ELSE poll[q]]
    /\ editor' = [IdleEditor EXCEPT !.pc = "done", !.poll_id = editor.poll_id]
    /\ UNCHANGED <<now, vote_count, votes, req, dispatched, cache, reader, task,
                   poll_result, command>>

(***************************************************************************)
(* The environment: time passes, and the poll's is_active flag is edited   *)
(* (the 'Settings' fieldset of PollAdmin).                                 *)
(***************************************************************************)
Tick ==
    /\ now < MaxTime
    /\ now' = now + 1
    /\ UNCHANGED <<poll, vote_count, votes, req, dispatched, cache, reader, task,
                   poll_result, command, editor>>

set_is_active(p, b) ==
    /\ poll[p].is_active # b
    /\ poll' = [poll EXCEPT ![p].is_active = b]
    /\ UNCHANGED <<now, vote_count, votes, req, dispatched, cache, reader, task,
                   poll_result, command, editor>>

(***************************************************************************)
(* Initial state: the polls exist with no votes; the clock is at 0.        *)
(***************************************************************************)
PollRows ==
    [is_active : {TRUE}, expires_at : {NoTime} \cup Times,
     allow_multiple_votes : BOOLEAN, total_votes : {0}]

Init ==
    /\ now = 0
    /\ poll \in [PollIds -> PollRows]
    /\ vote_count = [o \in InitialOptions |-> 0]
    /\ votes = {}
    /\ req = [r \in Reqs |-> IdleReq]
    /\ dispatched = [p \in PollIds |-> 0]
    /\ cache = [p \in PollIds |-> NoEntry]
    /\ reader = [d \in Readers |-> IdleReader]
    /\ task = [t \in Tasks |-> IdleReader]
    /\ poll_result = [p \in PollIds |-> NoResult]
    /\ command = IdleCommand
    /\ editor = IdleEditor

\* The steps of a request that follow its start.
VoteStep(r) ==
    \/ validate_option_text(r)
    \/ validate_can_vote(r)
    \/ validate_reason(r)
    \/ validate_duplicate(r)
    \/ validate_session(r)
    \/ create(r)
    \/ update_vote_count_read(r)
    \/ update_vote_count_save(r)
    \/ update_total_votes_read(r)
    \/ update_total_votes_save(r)
    \/ cast_vote_respond(r)

Environment ==
    \/ Tick
    \/ \E p \in PollIds, b \in BOOLEAN : set_is_active(p, b)

(***************************************************************************)
(* Spec: concurrent submissions; every interleaving of the statements of   *)
(* the requests with each other and with the environment.                  *)
(***************************************************************************)
Next ==
    \/ \E r \in Reqs, p \in PollIds, ctx \in Contexts, text \in RequestTexts :
          cast_vote(r, p, ctx, text)
    \/ \E r \in Reqs : VoteStep(r)
    \/ Environment

Spec == Init /\ [][Next]_vars

(***************************************************************************)
(* SpecSeq, SpecAnon: non-overlapping submissions.  A request starts only  *)
(* when no other is in flight; its steps still interleave with the         *)
(* environment.  SpecAnon draws the requests from the anonymous clients.   *)
(***************************************************************************)
SeqNext ==
    \/ \E r \in Reqs, p \in PollIds, ctx \in Contexts, text \in RequestTexts :
          NoneInFlight /\ cast_vote(r, p, ctx, text)
    \/ \E r \in Reqs : VoteStep(r)
    \/ Environment

SpecSeq == Init /\ [][SeqNext]_vars

\* Texts that name the two options of the poll.
ValidTexts == {" cats", "Dogs"}

AnonNext ==
    \/ \E r \in Reqs, p \in PollIds, ctx \in AnonContexts, text \in ValidTexts :
          NoneInFlight /\ cast_vote(r, p, ctx, text)
    \/ \E r \in Reqs : VoteStep(r)
    \/ Environment

SpecAnon == Init /\ [][AnonNext]_vars

(***************************************************************************)
(* SpecResults: result reads concurrent with the submissions of the two    *)
(* authenticated users on a poll that stays open.                          *)
(***************************************************************************)
ResultsContexts == {Ctx("u1", <<>>, "a1", "s1"), Ctx("u2", <<>>, "a1", None)}

\* The steps of an authenticated request on a poll that can be voted on.
OpenVoteStep(r) ==
    \/ validate_option_text(r)
    \/ validate_can_vote(r)
    \/ validate_duplicate(r)
    \/ create(r)
    \/ update_vote_count_read(r)
    \/ update_vote_count_save(r)
    \/ update_total_votes_read(r)
    \/ update_total_votes_save(r)
    \/ cast_vote_respond(r)

ResultsInit ==
    /\ Init
    /\ \A p \in PollIds : poll[p].expires_at = NoTime /\ ~poll[p].allow_multiple_votes

ResultsNext ==
    \/ \E r \in Reqs, p \in PollIds, ctx \in ResultsContexts, text \in ValidTexts :
          cast_vote(r, p, ctx, text)
    \/ \E r \in Reqs : OpenVoteStep(r)
    \/ \E d \in Readers : ReadStep(d)
    \/ \E p \in PollIds : cache_expire(p)

SpecResults == ResultsInit /\ [][ResultsNext]_vars

(***************************************************************************)
(* SpecRefresh: non-overlapping submissions of the two authenticated users *)
(* on a poll that stays open, the refresh tasks they dispatch, result      *)
(* reads and the expiry of cache entries, all interleaved.                 *)
(***************************************************************************)
RefreshNext ==
    \/ \E r \in Reqs, p \in PollIds, ctx \in ResultsContexts, text \in ValidTexts :
          NoneInFlight /\ cast_vote(r, p, ctx, text)
    \/ \E r \in Reqs : OpenVoteStep(r)
    \/ \E t \in Tasks : TaskStep(t)
    \/ \E d \in Readers : ReadStep(d)
    \/ \E p \in PollIds : cache_expire(p)

SpecRefresh == ResultsInit /\ [][RefreshNext]_vars

(***************************************************************************)
(* SpecRead: result reads and the expiry of cache entries, interleaved     *)
(* with the non-overlapping submissions of the two authenticated users.    *)
(***************************************************************************)
ReadNext ==
    \/ \E r \in Reqs, p \in PollIds, ctx \in ResultsContexts, text \in ValidTexts :
          NoneInFlight /\ cast_vote(r, p, ctx, text)
    \/ \E r \in Reqs : OpenVoteStep(r)
    \/ \E d \in Readers : ReadStep(d)
    \/ \E p \in PollIds : cache_expire(p)

SpecRead == ResultsInit /\ [][ReadNext]_vars

(***************************************************************************)
(* SpecFault: non-overlapping submissions of the two authenticated users   *)
(* and result reads, with a task queue and a cache store that may fail.    *)
(***************************************************************************)
FaultNext ==
    \/ \E r \in Reqs, p \in PollIds, ctx \in ResultsContexts, text \in ValidTexts :
          NoneInFlight /\ cast_vote(r, p, ctx, text)
    \/ \E r \in Reqs : OpenVoteStep(r)
    \/ \E r \in Reqs : cast_vote_delay_fails(r)
    \/ \E d \in Readers : ReadStep(d)
    \/ \E d \in Readers : poll_results_get_fails(d)
    \/ \E d \in Readers : poll_results_set_fails(d)

SpecFault == ResultsInit /\ [][FaultNext]_vars

(***************************************************************************)
(* SpecBinding: non-overlapping submissions of an authenticated user, of   *)
(* an anonymous client behind a proxy with no session, of one with a       *)
(* session key and no address, and of one with neither.                    *)
(***************************************************************************)
BindingContexts ==
    { Ctx("u1", <<>>, "a1", "s1"),
      Ctx(None, <<"a2", "a1">>, "a1", None),
      Ctx(None, <<>>, None, "s1"),
      Ctx(None, <<>>, None, None) }

BindingNext ==
    \/ \E r \in Reqs, p \in PollIds, ctx \in BindingContexts, text \in ValidTexts :
          NoneInFlight /\ cast_vote(r, p, ctx, text)
    \/ \E r \in Reqs : VoteStep(r)
    \/ Environment

SpecBinding == Init /\ [][BindingNext]_vars

(***************************************************************************)
(* SpecLedger: non-overlapping submissions of the two authenticated users, *)
(* the deletion of votes and the replacement of the poll's options.        *)
(***************************************************************************)
LedgerNext ==
    \/ \E r \in Reqs, p \in PollIds, ctx \in ResultsContexts, text \in ValidTexts :
          NoneInFlight /\ cast_vote(r, p, ctx, text)
    \/ \E r \in Reqs : OpenVoteStep(r)
    \/ \E v \in votes : Vote_delete(v)
    \/ \E p \in PollIds : PollCreateSerializer_update(p, NewOptions(p))

SpecLedger == ResultsInit /\ [][LedgerNext]_vars

(***************************************************************************)
(* Properties.                                                             *)
(***************************************************************************)
RECURSIVE SumVoteCount(_)
SumVoteCount(S) ==
    IF S = {} THEN 0
    ELSE LET o == CHOOSE x \in S : TRUE
         IN  vote_count[o] + SumVoteCount(S \ {o})

Started(r) == req[r].pc # "idle"
InFlight(r) == req[r].pc \notin {"idle", "done"}
VoteOf(r) == {v \in votes : v.id = r}

\* C1: in every reachable state, the intermediate states of the vote
\* submissions included, every poll has total_votes = sum of the
\* vote_count of its options = number of vote records of the poll.
C1_CounterInvariant ==
    \A p \in PollIds :
        /\ poll[p].total_votes = SumVoteCount(PollOptions(p))
        /\ poll[p].total_votes = poll_votes_count(p)

\* C2: on a poll with allow_multiple_votes = false no two vote records
\* carry the same voter key (the same authenticated user, or the same
\* anonymous address and session).
SameVoterKey(v, w) ==
    IF v.voter # None \/ w.voter # None
    THEN v.voter = w.voter
    ELSE v.voter_ip = w.voter_ip /\ v.voter_session = w.voter_session

C2_OneVotePerVoterKey ==
    \A v \in votes, w \in votes :
        (v # w /\ v.poll = w.poll /\ ~poll[v.poll].allow_multiple_votes)
            => ~SameVoterKey(v, w)

\* C3: when the submissions of NumReqs distinct voters against a poll
\* that is open (no expiry, active, single vote) have all completed, all
\* of them have succeeded, total_votes is NumReqs and every option's
\* vote_count is the number of those votes cast for it.
AllCompleted == \A r \in Reqs : req[r].pc = "done"

DistinctVoters ==
    \A r1 \in Reqs, r2 \in Reqs :
        r1 # r2 => req[r1].ctx.user # req[r2].ctx.user

C3_NoLostUpdate ==
    (AllCompleted /\ DistinctVoters) =>
        /\ \A r \in Reqs : req[r].response = "Created"
        /\ \A p \in PollIds : poll[p].total_votes = NumReqs
        /\ \A o \in DOMAIN vote_count : vote_count[o] = option_votes_count(o)

\* C4: every result snapshot, returned to a caller or stored in the cache,
\* has total_votes equal to the sum of the vote_count values it lists.
RECURSIVE SumListed(_)
SumListed(opts) ==
    IF opts = <<>> THEN 0 ELSE Head(opts).vote_count + SumListed(Tail(opts))

Consistent(snapshot) == snapshot.total_votes = SumListed(snapshot.options)

C4_SnapshotConsistent ==
    /\ \A d \in Readers :
          reader[d].results # NoEntry => Consistent(reader[d].results)
    /\ \A p \in PollIds : cache[p] # NoEntry => Consistent(cache[p].value)

\* The step of request r that ends it, and the step that takes it from pc.
Ends(r) == req[r].pc # "done" /\ req'[r].pc = "done"
Leaves(r, pc) == req[r].pc = pc /\ req'[r].pc # pc

Rejections == {"InvalidOption", "PollExpired", "PollInactive", "AlreadyVoted"}

\* A vote of the authenticated user of request r, recorded on r's poll by
\* an earlier request (submissions do not overlap in SpecSeq, so earlier
\* requests are those of the lower slots).
PriorVoteOfUser(r) ==
    \E v \in votes :
        v.poll = req[r].poll_id /\ v.id < r /\ v.voter = req[r].ctx.user

DuplicateAttempt(r) ==
    /\ Started(r)
    /\ req[r].ctx.user # None
    /\ ~poll[req[r].poll_id].allow_multiple_votes
    /\ PriorVoteOfUser(r)

\* C5 as stated: with allow_multiple_votes = false, every attempt of an
\* authenticated user who has a recorded vote on the poll, whichever
\* option it names, ends with AlreadyVoted.
C5_AlwaysAlreadyVoted ==
    [][\A r \in Reqs :
         (DuplicateAttempt(r) /\ Ends(r)
            /\ options_iexact(req[r].poll_id, req[r].option_text) # {})
         => req'[r].response = "AlreadyVoted"]_vars

\* C5 as amended: such an attempt is always rejected and never adds a vote
\* record; the reason is AlreadyVoted whenever the attempt has passed the
\* option and the can_vote checks (it reaches the duplicate check), and
\* one of the three other reasons otherwise.
C5_DuplicateRejected ==
    [][\A r \in Reqs :
         DuplicateAttempt(r) =>
            /\ Ends(r) => req'[r].response \in Rejections
            /\ Leaves(r, "eligible") => req'[r].response = "AlreadyVoted"
            /\ (Ends(r) /\ req'[r].response # "AlreadyVoted")
                  => req[r].pc \in {"loaded", "not_votable"}
            /\ votes' = votes \/ ~Ends(r)
            /\ VoteOf(r) = {}]_vars

C5_Witness ==
    \E r \in Reqs :
        /\ req[r].pc = "done"
        /\ req[r].response = "AlreadyVoted"
        /\ DuplicateAttempt(r)
        /\ \E v \in votes : v.voter = req[r].ctx.user /\ v.option = "o1"
        /\ VoteOf(r) = {}

\* Votes recorded on r's poll by earlier requests that carry the address,
\* or the session key, of the anonymous request r.
SharesAddress(r) ==
    /\ get_client_ip(req[r].ctx) # None
    /\ \E v \in votes : /\ v.poll = req[r].poll_id
                        /\ v.id < r
                        /\ v.voter_ip = get_client_ip(req[r].ctx)

SharesSession(r) ==
    /\ req[r].ctx.session_key # None
    /\ \E v \in votes : /\ v.poll = req[r].poll_id
                        /\ v.id < r
                        /\ v.voter_session = req[r].ctx.session_key

AdmittedPcs ==
    {"admitted", "inserted", "option_counted", "option_saved",
     "poll_counted", "saved"}

\* C6: with allow_multiple_votes = false, an anonymous attempt that shares
\* its address with a recorded vote of the poll is rejected (whatever its
\* session), one that shares its session is rejected (whatever its
\* address), and the duplicate guard rejects no attempt that shares
\* neither: it is admitted.
C6_AnonymousOrMatch ==
    \A r \in Reqs :
        (/\ Started(r)
         /\ req[r].ctx.user = None
         /\ ~poll[req[r].poll_id].allow_multiple_votes)
        => /\ SharesAddress(r) =>
                 /\ req[r].pc \notin AdmittedPcs \cup {"ip_ok"}
                 /\ req[r].response # "Created"
                 /\ VoteOf(r) = {}
           /\ SharesSession(r) =>
                 /\ req[r].pc \notin AdmittedPcs
                 /\ req[r].response # "Created"
                 /\ VoteOf(r) = {}
           /\ req[r].response = "AlreadyVoted" =>
                 SharesAddress(r) \/ SharesSession(r)

\* A rejected attempt that shares only the session of the recorded vote.
C6_Witness ==
    \E r \in Reqs :
        /\ req[r].pc = "done"
        /\ req[r].response = "AlreadyVoted"
        /\ ~poll[req[r].poll_id].allow_multiple_votes
        /\ SharesSession(r)
        /\ ~SharesAddress(r)
        /\ get_client_ip(req[r].ctx) # None

\* C7: a request that loads a poll whose expires_at is in the past never
\* gets past validate's can_vote check, is rejected by validate with
\* PollExpired and records nothing, whoever sends it, whatever votes exist,
\* whatever allow_multiple_votes and is_active are.
C7_ExpiredRejected ==
    [][\A r \in Reqs :
         req[r].expired_at_load =>
            /\ req[r].pc \in {"loaded", "option_ok", "not_votable"}
            /\ Leaves(r, "option_ok") => req'[r].pc = "not_votable"
            /\ Leaves(r, "not_votable") => req'[r].response = "PollExpired"
            /\ (Ends(r) /\ req[r].pc # "loaded")
                  => req'[r].response = "PollExpired"
            /\ req'[r] # req[r] => votes' = votes
            /\ VoteOf(r) = {}]_vars

\* PollExpired for a user who has voted before, on a poll that is inactive
\* as well.
C7_Witness ==
    \E r \in Reqs :
        /\ req[r].pc = "done"
        /\ req[r].response = "PollExpired"
        /\ req[r].ctx.user # None
        /\ PriorVoteOfUser(r)
        /\ ~poll[req[r].poll_id].is_active
        /\ VoteOf(r) = {}

\* is_active AND (expires_at is unset OR now <= expires_at)
CanVoteAsSpecified(p, t) ==
    p.is_active /\ (p.expires_at = NoTime \/ t <= p.expires_at)

\* C8: can_vote is exactly is_active and (expires_at unset or now <=
\* expires_at), on every poll row and every loaded instance; validate lets a
\* request through exactly when this holds (now = expires_at included), and
\* rejects with PollInactive when the poll is inactive and not expired.
C8_CanVoteState ==
    /\ \A p \in PollIds, t \in Times :
          can_vote(poll[p], t) = CanVoteAsSpecified(poll[p], t)
    /\ \A r \in Reqs, t \in Times :
          can_vote(req[r].poll, t) = CanVoteAsSpecified(req[r].poll, t)

C8_CanVote ==
    /\ []C8_CanVoteState
    /\ [][\A r \in Reqs :
            /\ Leaves(r, "option_ok") =>
                  ((req'[r].pc = "eligible") = CanVoteAsSpecified(req[r].poll, now))
            /\ (/\ Leaves(r, "not_votable")
                /\ ~req[r].poll.is_active
                /\ (req[r].poll.expires_at = NoTime \/ now <= req[r].poll.expires_at))
               => req'[r].response = "PollInactive"]_vars

\* One request rejected with PollInactive, and another one eligible at the
\* instant now = expires_at.
C8_Witness ==
    \E r1 \in Reqs, r2 \in Reqs :
        /\ req[r1].pc = "done"
        /\ req[r1].response = "PollInactive"
        /\ req[r2].pc = "eligible"
        /\ req[r2].poll.expires_at = now

\* C9: a vote record is inserted only while its poll satisfies can_vote at
\* the time of the insertion.
C9_InsertOnlyWhileCanVote ==
    [][\A r \in Reqs :
         (req[r].pc = "admitted" /\ req'[r].pc = "inserted")
            => CanVoteAsSpecified(poll[req[r].poll_id], now)]_vars

\* C10: on a poll with allow_multiple_votes = true, a request that names an
\* option and finds the poll votable is eligible, the duplicate guard admits
\* it whatever votes exist, the create step adds exactly one vote record, and
\* the request ends with the 201.
C10_MultipleVotesAdmitted ==
    [][\A r \in Reqs :
         (Started(r) /\ req[r].poll.allow_multiple_votes) =>
            /\ (Leaves(r, "option_ok") /\ CanVoteAsSpecified(req[r].poll, now))
                  => req'[r].pc = "eligible"
            /\ Leaves(r, "eligible") => req'[r].pc = "admitted"
            /\ Leaves(r, "admitted") =>
                  /\ Cardinality(votes') = Cardinality(votes) + 1
                  /\ votes \subseteq votes'
                  /\ \A v \in votes' \ votes : v.id = r
            /\ (Ends(r) /\ req[r].pc \notin {"loaded", "not_votable"})
                  => /\ req'[r].response = "Created"
                     /\ Cardinality(VoteOf(r)) = 1]_vars

\* A second vote of the same user, and a second vote from the same
\* anonymous client, both recorded.
C10_Witness ==
    \E r \in Reqs :
        /\ req[r].pc = "done"
        /\ req[r].response = "Created"
        /\ poll[req[r].poll_id].allow_multiple_votes
        /\ Cardinality(VoteOf(r)) = 1
        /\ \E v \in votes, w \in VoteOf(r) : v.id < r /\ SameVoterKey(v, w)

\* C11: when submissions do not overlap, the save of update_vote_count
\* raises the stored vote_count of the chosen option by exactly 1 (and
\* leaves the other options alone), the save of update_total_votes raises
\* the poll's total_votes by exactly 1, and whenever no submission is in
\* flight total_votes = sum of the vote_counts = number of vote records.
C11_CountersFollowVotes ==
    /\ [](NoneInFlight => C1_CounterInvariant)
    /\ [][\A r \in Reqs :
            /\ Leaves(r, "option_counted") =>
                  vote_count' = [vote_count EXCEPT ![req[r].option] = @ + 1]
            /\ Leaves(r, "poll_counted") =>
                  poll'[req[r].poll_id].total_votes
                     = poll[req[r].poll_id].total_votes + 1]_vars

\* Two completed votes, one for each option.
C11_Witness ==
    /\ NoneInFlight
    /\ \E v \in votes, w \in votes : v.option = "o1" /\ w.option = "o2"
    /\ poll["p1"].total_votes = 2
    /\ vote_count["o1"] = 1
    /\ vote_count["o2"] = 1

\* C12: the vote ledger is append-only: no step removes or changes a vote
\* record, so the set of vote records only grows.
C12_LedgerAppendOnly == [][votes \subseteq votes']_vars

\* The options of r's poll whose text equals the request's option_text,
\* trimmed, up to case.
NamedOptions(r) ==
    {o \in DOMAIN vote_count :
        /\ OptionPoll[o] = req[r].poll_id
        /\ lower(OptionText[o]) = lower(strip(req[r].option_text))}

\* C13: every vote record references an existing option of the poll it
\* references; a request whose option_text names an option of the poll goes
\* on with that option, and one whose option_text names none is rejected
\* by validate_option_text and creates nothing.
C13_OptionOfPollState ==
    /\ \A v \in votes :
          v.option \in DOMAIN vote_count /\ OptionPoll[v.option] = v.poll
    /\ \A r \in Reqs :
          (InFlight(r) /\ req[r].pc # "loaded") => req[r].option \in NamedOptions(r)

C13_OptionOfPoll ==
    /\ []C13_OptionOfPollState
    /\ [][\A r \in Reqs :
            Leaves(r, "loaded") =>
               IF NamedOptions(r) = {}
               THEN /\ req'[r].pc = "done"
                    /\ req'[r].response = "InvalidOption"
                    /\ votes' = votes
                    /\ VoteOf(r) = {}
               ELSE /\ req'[r].pc = "option_ok"
                    /\ req'[r].option \in NamedOptions(r)]_vars

\* A request for "Birds" (the text of another poll's option) rejected, and
\* a vote recorded for Cats from the text " cats".
C13_Witness ==
    \E r1 \in Reqs, r2 \in Reqs :
        /\ req[r1].pc = "done"
        /\ req[r1].response = "InvalidOption"
        /\ VoteOf(r1) = {}
        /\ req[r2].response = "Created"
        /\ \E v \in VoteOf(r2) : v.option = "o1"

\* The two identity bindings of a vote record.
UserBinding(v) ==
    v.voter # None /\ v.voter_ip = None /\ v.voter_session = None

AnonymousBinding(v) ==
    v.voter = None /\ (v.voter_ip # None \/ v.voter_session # None)

\* C14 as stated: every vote record carries either a user reference with
\* no address and no session, or no user reference and an address/session
\* pair of which at least one is populated.
C14_ExactlyOneBinding ==
    \A v \in votes : UserBinding(v) \/ AnonymousBinding(v)

\* C14 as amended: the same, except for the record of a request that
\* carried no user, no address and no session key, which has none of the
\* three; the record holds exactly the identity the request carried.
C14_BindingOfRequest ==
    \A r \in Reqs : \A v \in VoteOf(r) :
        /\ UserBinding(v) = (req[r].ctx.user # None)
        /\ UserBinding(v) => v.voter = req[r].ctx.user
        /\ v.voter = None =>
              /\ v.voter_ip =
                    (IF req[r].ctx.xff # <<>>
                     THEN Head(req[r].ctx.xff) ELSE req[r].ctx.remote_addr)
              /\ v.voter_session = req[r].ctx.session_key
        /\ (UserBinding(v) \/ AnonymousBinding(v))
              = ~(/\ req[r].ctx.user = None
                  /\ req[r].ctx.xff = <<>>
                  /\ req[r].ctx.remote_addr = None
                  /\ req[r].ctx.session_key = None)

\* Records of an authenticated request, of an anonymous request behind a
\* proxy, and of a request with no identity at all.
C14_Witness ==
    /\ \E v \in votes : v.voter = None /\ v.voter_ip = None /\ v.voter_session = None
    /\ \E v \in votes : AnonymousBinding(v)

\* Request r carries no user, no address and no session key.
Unidentifiable(r) ==
    /\ Started(r)
    /\ req[r].ctx.user = None
    /\ req[r].ctx.xff = <<>>
    /\ req[r].ctx.remote_addr = None
    /\ req[r].ctx.session_key = None

\* C15: a request with no user, no address and no session key is not
\* failed for that: on a poll that satisfies can_vote it passes the
\* can_vote check, neither the address nor the session check rejects it
\* whatever votes exist and whatever allow_multiple_votes is, and it ends
\* with the 201 and one anonymous vote record.
C15_UnidentifiableAdmitted ==
    [][\A r \in Reqs :
         Unidentifiable(r) =>
            /\ (Leaves(r, "option_ok") /\ CanVoteAsSpecified(req[r].poll, now))
                  => req'[r].pc = "eligible"
            /\ Leaves(r, "eligible") => req'[r].pc \in {"ip_ok", "admitted"}
            /\ Leaves(r, "ip_ok") => req'[r].pc = "admitted"
            /\ Ends(r) => req'[r].response # "AlreadyVoted"
            /\ (Ends(r) /\ req[r].pc \notin {"loaded", "not_votable"})
                  => /\ req'[r].response = "Created"
                     /\ Cardinality(VoteOf(r)) = 1
                     /\ \A v \in VoteOf(r) : v.voter = None]_vars

\* Two such requests, both recorded on a poll with allow_multiple_votes =
\* false.
C15_Witness ==
    /\ \A r \in Reqs :
          /\ Unidentifiable(r)
          /\ req[r].pc = "done"
          /\ req[r].response = "Created"
          /\ ~poll[req[r].poll_id].allow_multiple_votes
    /\ Cardinality(votes) = NumReqs

\* Every submitted vote has been written, every refresh task that was
\* dispatched has run to its end, and no results read is under way.
Quiescent ==
    /\ NoneInFlight
    /\ \A p \in PollIds : Cardinality(TasksStarted(p)) = dispatched[p]
    /\ \A t \in Tasks : task[t].pc \in {"idle", "done", "failed"}
    /\ \A d \in Readers : reader[d].pc \in {"idle", "done"}

\* C16: once the write of every vote and the refresh it dispatched have
\* completed, the cache holds no snapshot whose total_votes is from before
\* one of these votes, so a results read issued from then on (which
\* returns the cached snapshot on a hit) never returns such a total.
C16_FreshAfterRefresh ==
    Quiescent =>
        \A p \in PollIds :
            cache[p] # NoEntry =>
                cache[p].value.total_votes >= poll_votes_count(p)

\* The requests on poll p that have returned and have a vote record.
Recorded(p) ==
    {r \in Reqs : req[r].pc = "done" /\ req[r].poll_id = p /\ VoteOf(r) # {}}

C19_VoteSucceedsWithoutDispatch ==
    \A r \in Reqs :
        (req[r].pc = "done" /\ VoteOf(r) # {}) => req[r].response = "Created"

\* C20: a results read that has returned has returned a snapshot of its
\* poll, also when cache.get or cache.set fails.
C20_ReadSurvivesCacheFailure ==
    \A d \in Readers :
        reader[d].pc = "done" => reader[d].results.poll_id = reader[d].poll_id

\* The record s is a snapshot of poll p computed from the stored counters:
\* it lists the existing options of p, each once, with the vote_count the
\* option has now, and the total_votes of the instance the caller loaded.
SnapshotOfCounters(s, p, instance) ==
    /\ s.poll_id = p
    /\ s.total_votes = instance.total_votes
    /\ {s.options[i].id : i \in DOMAIN s.options}
          = {o \in DOMAIN vote_count : OptionPoll[o] = p}
    /\ Len(s.options) = Cardinality({o \in DOMAIN vote_count : OptionPoll[o] = p})
    /\ \A i \in DOMAIN s.options :
          s.options[i].vote_count = vote_count[s.options[i].id]

\* C18: a results read always returns a snapshot of its poll.  On a hit it
\* returns the cached snapshot and neither recomputes nor writes; on a
\* miss it computes the snapshot from the stored counters, stores it under
\* the poll's key with a timeout of 300 s, and returns it.
C18_ReadReturnsSnapshotState ==
    \A d \in Readers :
        reader[d].pc = "done" => reader[d].results.poll_id = reader[d].poll_id

SerialNext ==
    \/ \E r \in Reqs, p \in PollIds, ctx \in ResultsContexts, text \in ValidTexts :
          Quiescent /\ cast_vote(r, p, ctx, text)
    \/ \E r \in Reqs : OpenVoteStep(r)
    \/ \E t \in Tasks : TaskStep(t)
    \/ \E d \in Readers, p \in PollIds : Quiescent /\ poll_results(d, p)
    \/ \E d \in Readers : poll_results_get(d)
    \/ \E d \in Readers : poll_results_generate(d)
    \/ \E d \in Readers : poll_results_set(d)
    \/ \E p \in PollIds : cache_expire(p)

SpecSerial == ResultsInit /\ [][SerialNext]_vars

\* C21: with the votes cast one at a time and every dispatched refresh
\* completed before the next request, the snapshot a results read returns
\* has total_votes equal to the number of vote records of the poll and, for
\* every option of the poll, vote_count equal to the number of vote records
\* for that option; a single vote gives its option 100.0, one vote of two
\* gives 50.0.
C21_ResultsMatchVotes ==
    [][\A d \in Readers :
         (reader[d].pc # "done" /\ reader'[d].pc = "done") =>
            LET s == reader'[d].results
                p == reader'[d].poll_id
            IN  /\ s.total_votes = Cardinality({v \in votes : v.poll = p})
                /\ {s.options[i].id : i \in DOMAIN s.options}
                      = {o \in DOMAIN vote_count : OptionPoll[o] = p}
                /\ \A i \in DOMAIN s.options :
                      LET n == Cardinality({v \in votes : v.option = s.options[i].id})
                      IN  /\ s.options[i].vote_count = n
                          /\ (s.total_votes = 1 /\ n = 1) => s.options[i].percentage = 10000
                          /\ (s.total_votes = 2 /\ n = 1) => s.options[i].percentage = 5000
                          /\ n = 0 => s.options[i].percentage = 0]_vars

\* A results read that returned a snapshot with one vote, all of it for
\* one option.
C21_Witness ==
    \E d \in Readers :
        /\ reader[d].pc = "done"
        /\ reader[d].results.total_votes = 1
        /\ Cardinality(votes) = 1
        /\ \E i \in DOMAIN reader[d].results.options :
              /\ reader[d].results.options[i].vote_count = 1
              /\ reader[d].results.options[i].percentage = 10000

(***************************************************************************)
(* SpecPercent: generate_poll_results as a function of the counters it     *)
(* reads.  The total_votes of the poll and the vote_count of its two       *)
(* options are drawn from 0..MaxVotes; result reads compute, store and     *)
(* return the snapshots, and cache entries expire.                         *)
(***************************************************************************)
PercentInit ==
    /\ now = 0
    /\ poll \in [PollIds -> [is_active : {TRUE}, expires_at : {NoTime},
                            allow_multiple_votes : {FALSE},
                            total_votes : 0..MaxVotes]]
    /\ vote_count \in [InitialOptions -> 0..MaxVotes]
    /\ \A o \in InitialOptions : OptionPoll[o] \notin PollIds => vote_count[o] = 0
    /\ votes = {}
    /\ req = [r \in Reqs |-> IdleReq]
    /\ dispatched = [p \in PollIds |-> 0]
    /\ cache = [p \in PollIds |-> NoEntry]
    /\ reader = [d \in Readers |-> IdleReader]
    /\ task = [t \in Tasks |-> IdleReader]
    /\ poll_result = [p \in PollIds |-> NoResult]
    /\ command = IdleCommand
    /\ editor = IdleEditor

PercentNext ==
    \/ \E d \in Readers : ReadStep(d)
    \/ \E p \in PollIds : cache_expire(p)

SpecPercent == PercentInit /\ [][PercentNext]_vars

\* The snapshots held by the result reads and by the cache.
Snapshots ==
    {reader[d].results : d \in {e \in Readers : reader[e].results # NoEntry}}
       \cup {cache[p].value : p \in {q \in PollIds : cache[q] # NoEntry}}

\* C22: in every snapshot, an option's percentage (in hundredths) is the
\* hundredth nearest to vote_count / total_votes * 100 when the snapshot's
\* total_votes is > 0, and 0 when it is 0; 2 of 3 is 66.67, 1 of 3 is
\* 33.33 and 1 of 1 is 100.0.
C22_PercentageRounded ==
    \A s \in Snapshots :
        \A i \in DOMAIN s.options :
            LET c == s.options[i].vote_count
                t == s.total_votes
                h == s.options[i].percentage
                diff == h * t - 10000 * c
            IN  IF t > 0
                THEN /\ 2 * diff <= t
                     /\ -2 * diff <= t
                     /\ (c = 2 /\ t = 3) => h = 6667
                     /\ (c = 1 /\ t = 3) => h = 3333
                     /\ c = t => h = 10000
                ELSE h = 0

\* A snapshot of 3 votes with 66.67 for one option and 33.33 for the other.
C22_Witness ==
    \E s \in Snapshots :
        /\ s.total_votes = 3
        /\ \E i, j \in DOMAIN s.options :
              /\ s.options[i].vote_count = 2 /\ s.options[i].percentage = 6667
              /\ s.options[j].vote_count = 1 /\ s.options[j].percentage = 3333

RECURSIVE SumPercentage(_, _)
SumPercentage(options, n) ==
    IF n = 0 THEN 0 ELSE options[n].percentage + SumPercentage(options, n - 1)

\* C23: in every snapshot served or cached for a poll, votes being written
\* or not: with total_votes > 0 the percentages of the options sum to 100.00
\* within 0.005 per option and none exceeds 100; with total_votes = 0 every
\* percentage is 0.
C23_PercentageLaw ==
    \A s \in Snapshots :
        LET n == Len(s.options)
            sum == SumPercentage(s.options, n)
        IN  IF s.total_votes > 0
            THEN /\ 2 * (sum - 10000) <= n
                 /\ 2 * (10000 - sum) <= n
                 /\ \A i \in 1..n : s.options[i].percentage <= 10000
            ELSE \A i \in 1..n : s.options[i].percentage = 0

(***************************************************************************)
(* SpecCommand: runs of the management command (every active poll, or one  *)
(* poll, with and without --force), one after another, on a database of    *)
(* two polls, while an authenticated user votes (non-overlapping           *)
(* submissions) and polls are deleted.  Poll p1 is active or not.  The     *)
(* PollResult rows the database holds at the start are drawn: none, or a   *)
(* row from before any vote.                                               *)
(***************************************************************************)
CommandInit ==
    /\ now = 0
    /\ poll \in [CommandPolls -> [is_active : BOOLEAN, expires_at : {NoTime},
                                 allow_multiple_votes : {FALSE},
                                 total_votes : {0}]]
    /\ poll["p2"].is_active
    /\ vote_count = [o \in InitialOptions |-> 0]
    /\ votes = {}
    /\ req = [r \in Reqs |-> IdleReq]
    /\ dispatched = [p \in CommandPolls |-> 0]
    /\ cache = [p \in CommandPolls |-> NoEntry]
    /\ reader = [d \in Readers |-> IdleReader]
    /\ task = [t \in Tasks |-> IdleReader]
    /\ poll_result \in [CommandPolls -> {NoResult, [exists |-> TRUE, total_votes |-> 0]}]
    /\ command = IdleCommand
    /\ editor = IdleEditor

\* The text of the one option a vote on poll p names.
OptionTextOf(p) == IF p = "p1" THEN "Dogs" ELSE "Birds"

CommandContexts == {Ctx("u1", <<>>, "a1", "s1")}

CommandNext ==
    \/ \E r \in Reqs, p \in CommandPolls, ctx \in CommandContexts :
          NoneInFlight /\ p \in DOMAIN poll /\ cast_vote(r, p, ctx, OptionTextOf(p))
    \/ \E r \in Reqs : OpenVoteStep(r)
    \/ \E r \in Reqs : validate_reason(r)
    \/ \E force \in BOOLEAN : Command_handle(force)
    \/ \E p \in CommandPolls, force \in BOOLEAN : Command_handle_poll_id(p, force)
    \/ CommandStep
    \/ \E p \in CommandPolls : perform_destroy(p)

SpecCommand == CommandInit /\ [][CommandNext]_vars

\* The command has just decided on the poll it holds: Command_check ran.
Decides == command.pc = "check" /\ command'.pc # "check"

\* C24: without --force the command skips a poll (no cache write, no
\* count) exactly when a PollResult row of the poll exists whose
\* total_votes equals the total_votes of the poll as the run read it; with
\* --force it never skips; a poll with no stored result is never skipped.
\* A poll that is not skipped goes on to generate_poll_results.
C24_SkipsWhenUpToDate ==
    [][Decides =>
         LET p == command.poll_id
             stored == poll_result[p]
             skips == command'.pc = "loop"
         IN  /\ skips <=> (/\ ~command.force
                           /\ stored.exists
                           /\ stored.total_votes = command.poll.total_votes)
             /\ skips => /\ cache' = cache
                         /\ poll_result' = poll_result
                         /\ command'.updated_count = command.updated_count
                         /\ command'.written = command.written
                         /\ command'.skipped = command.skipped \cup {p}
             /\ ~skips => command'.pc = "generate"]_vars

\* A run without --force that has skipped one poll, whose stored result
\* was up to date, and has written the cache entry of the other, which had
\* a vote that its stored result did not have.
C24_Witness ==
    /\ command.pc = "done"
    /\ command.all
    /\ ~command.force
    /\ \E p, q \in CommandPolls :
          /\ p \in command.skipped
          /\ p \notin command.written
          /\ q \in command.written
          /\ q \in DOMAIN poll
          /\ poll_result[q] = [exists |-> TRUE, total_votes |-> 1]

(***************************************************************************)
(* SpecRun: one run of the command over every active poll, with or without *)
(* --force, while polls are deleted and switched on and off.  SpecRunFair  *)
(* adds a command process that keeps running: a run that has a statement   *)
(* to execute executes it.                                                 *)
(***************************************************************************)
RunNext ==
    \/ \E force \in BOOLEAN : command.pc = "idle" /\ Command_handle(force)
    \/ CommandStep
    \/ \E p \in CommandPolls : perform_destroy(p)
    \/ \E p \in CommandPolls, b \in BOOLEAN : p \in DOMAIN poll /\ set_is_active(p, b)

SpecRun == CommandInit /\ [][RunNext]_vars

SpecRunFair == SpecRun /\ WF_vars(CommandStep)

\* The polls a sequence of ids names, and whether it names none twice.
Ids(seq) == {seq[i] : i \in DOMAIN seq}

NoRepeat(seq) == \A i, j \in DOMAIN seq : seq[i] = seq[j] => i = j

\* C25 (safety): during a run over all polls, the polls attempted so far
\* and the polls still to come are, together and each once, the polls the
\* query found active; at the report every one of them has been
\* attempted, whatever errors were reported on the way.
C25_EveryActivePollOnceState ==
    command.all =>
        /\ NoRepeat(command.attempted \o [i \in DOMAIN command.polls |-> command.polls[i].id])
        /\ Ids(command.attempted) \cup {command.polls[i].id : i \in DOMAIN command.polls}
              = command.listed
        /\ \A i \in DOMAIN command.polls : command.polls[i].row.is_active
        /\ command.pc = "done" =>
              /\ Ids(command.attempted) = command.listed
              /\ command.report = "UpdatedCount"
        /\ command.errors \cup command.skipped \subseteq Ids(command.attempted)

\* C25: the run attempts every poll that was active when it listed them,
\* each exactly once, and no inactive poll; the query lists exactly the
\* active polls; an error on one poll is reported and the run goes on; and
\* every run that has started ends with its report.
C25_EveryActivePollOnce ==
    /\ []C25_EveryActivePollOnceState
    /\ [][(command'.pc = "loop" /\ command.pc \in {"idle", "done"}) =>
             command'.listed = {p \in DOMAIN poll : poll[p].is_active}]_vars
    /\ [][(command.pc = "cached" /\ command'.pc # "cached"
              /\ (command.poll_id \notin DOMAIN poll
                    \/ ~poll_result[command.poll_id].exists)) =>
             /\ command'.pc = "loop"
             /\ command'.errors = command.errors \cup {command.poll_id}
             /\ command'.polls = command.polls]_vars
    /\ (command.pc \notin {"idle", "done"}) ~> (command.pc = "done")

\* A run over two active polls that reported an error on the first, which
\* was deleted after the run had listed it, and went on to the second.
C25_Witness ==
    /\ command.pc = "done"
    /\ command.all
    /\ command.attempted = <<"p2", "p1">>
    /\ "p2" \in command.errors
    /\ "p2" \notin DOMAIN poll
    /\ "p1" \in command.written

(***************************************************************************)
(* SpecReentrant: runs of the command over every active poll and the       *)
(* refresh tasks of the votes, concurrent with each other and with the     *)
(* statements of the vote that an authenticated user is casting.           *)
(***************************************************************************)
ReentrantNext ==
    \/ \E r \in Reqs, p \in CommandPolls, ctx \in CommandContexts :
          NoneInFlight /\ cast_vote(r, p, ctx, OptionTextOf(p))
    \/ \E r \in Reqs : OpenVoteStep(r)
    \/ \E r \in Reqs : validate_reason(r)
    \/ \E t \in Tasks, p \in CommandPolls : update_poll_results_async(t, p)
    \/ \E t \in Tasks : update_poll_results_async_generate(t)
    \/ \E t \in Tasks : update_poll_results_async_set(t)
    \/ \E t \in Tasks : update_poll_results_async_store(t)
    \/ \E force \in BOOLEAN : command.pc = "idle" /\ Command_handle(force)
    \/ CommandStep

SpecReentrant == CommandInit /\ [][ReentrantNext]_vars

\* A step of the refresher: of the command or of a refresh task.
RefreshStep == command' # command \/ task' # task

\* C26: no step of the refresher (the command or a task) adds, removes or
\* changes a vote record, an option's vote_count or a poll's total_votes,
\* whatever votes are being written at the time; it changes only cache
\* entries and PollResult rows (and dispatches nothing).
C26_RefreshLeavesCounters ==
    [][RefreshStep =>
         /\ votes' = votes
         /\ vote_count' = vote_count
         /\ poll' = poll
         /\ req' = req
         /\ dispatched' = dispatched]_vars

\* A refresh task and a run of the command have both written the cache
\* entry of a poll while a vote on it was between its INSERT and its
\* response.
C26_Witness ==
    /\ \E r \in Reqs : req[r].pc \in {"inserted", "option_counted", "option_saved",
                                     "poll_counted", "saved"}
    /\ \E t \in Tasks : task[t].pc \in {"cached", "done", "failed"}
    /\ command.written # {}
    /\ \E p \in CommandPolls : poll_result[p] = [exists |-> TRUE, total_votes |-> 1]

\* C27: when a run over all polls reports its count, the count is the
\* number of polls whose cache entry the run wrote: a poll is counted if
\* and only if its entry was written, so the entry of a poll reported as
\* failed or skipped was not written by the run.
C27_CountIsCacheWrites ==
    (command.pc = "done" /\ command.all) =>
        /\ command.updated_count = Cardinality(command.written)
        /\ command.written \cap (command.errors \cup command.skipped) = {}

(***************************************************************************)
(* SpecReconcile: concurrent submissions of the two authenticated users,   *)
(* the replacement of the poll's options, and the recount of a poll's      *)
(* total_votes between submissions.                                        *)
(***************************************************************************)
ReconcileNext ==
    \/ \E r \in Reqs, p \in PollIds, ctx \in ResultsContexts, text \in ValidTexts :
          cast_vote(r, p, ctx, text)
    \/ \E r \in Reqs : OpenVoteStep(r)
    \/ \E p \in PollIds : PollCreateSerializer_update(p, NewOptions(p))
    \/ \E p \in PollIds : Poll_update_total_votes(p)

SpecReconcile == ResultsInit /\ [][ReconcileNext]_vars

\* C28: in every state with no write in progress, whatever drift the
\* counters have, the recount of a poll leaves it with total_votes = sum of
\* the vote_count of its options = number of its vote records.
C28_ReconcileRestores ==
    NoneInFlight =>
        \A p \in PollIds :
            /\ reconcile(p)[p].total_votes = poll_votes_count(p)
            /\ reconcile(p)[p].total_votes = SumVoteCount(PollOptions(p))

(***************************************************************************)
(* SpecReject: non-overlapping submissions of an authenticated user and of  *)
(* an anonymous client, which may also name a poll that does not exist.    *)
(***************************************************************************)
UnknownPoll == "p0"

RejectContexts == {Ctx("u1", <<>>, "a1", "s1"), Ctx(None, <<>>, "a1", "s1")}

RejectNext ==
    \/ \E r \in Reqs, p \in PollIds \cup {UnknownPoll}, ctx \in RejectContexts,
          text \in RequestTexts :
          NoneInFlight /\ cast_vote(r, p, ctx, text)
    \/ \E r \in Reqs : VoteStep(r)
    \/ Environment

SpecReject == Init /\ [][RejectNext]_vars

\* The places of a request before serializer.save().
BeforeSave == {"idle", "loaded", "option_ok", "not_votable", "eligible", "ip_ok"}

NotFound == "NotFound"

\* C29: a request that is rejected (404 for an unknown poll; 400 for an
\* option text that matches no option, an inactive poll, an expired poll
\* or a voter who has voted) is rejected before serializer.save(), and no
\* statement it executes up to and including the rejection creates a vote
\* record, changes a vote_count or a total_votes, writes a cache entry or
\* a PollResult row, or dispatches a refresh.
C29_RejectionChangesNothing ==
    [][\A r \in Reqs :
         /\ (req'[r] # req[r] /\ req[r].pc \in BeforeSave) =>
               /\ votes' = votes
               /\ vote_count' = vote_count
               /\ poll' = poll
               /\ cache' = cache
               /\ dispatched' = dispatched
               /\ poll_result' = poll_result
               /\ task' = task
         /\ (Ends(r) /\ req'[r].response \in Rejections \cup {NotFound}) =>
               /\ req[r].pc \in BeforeSave
               /\ {v \in votes' : v.id = r} = {}]_vars

\* A vote was recorded, and a later request of the same user was rejected
\* as a duplicate: one record, counters at 1, one refresh dispatched.
C29_Witness ==
    \E p \in PollIds :
        /\ \E r \in Reqs : req[r].pc = "done" /\ req[r].response = "AlreadyVoted"
        /\ Cardinality(votes) = 1
        /\ poll[p].total_votes = 1
        /\ dispatched[p] = 1

(***************************************************************************)
(* SpecOptions: the replacement of the poll's options by one of several    *)
(* lists, and non-overlapping submissions of the two authenticated users.  *)
(***************************************************************************)
OptionLists == {{"o3", "o4"}, {"o3", "o6"}, {"o3", "o7"}, {"o4"}}

OptionsNext ==
    \/ \E r \in Reqs, p \in PollIds, ctx \in ResultsContexts, text \in ValidTexts :
          NoneInFlight /\ cast_vote(r, p, ctx, text)
    \/ \E r \in Reqs : OpenVoteStep(r)
    \/ \E p \in PollIds, options \in OptionLists : PollCreateSerializer_update(p, options)

SpecOptions == ResultsInit /\ [][OptionsNext]_vars

\* C30: no poll has two options whose texts are equal ignoring case, so
\* no vote request's option text matches two options of its poll and every
\* request gets past the option lookup with one option or a rejection.
C30_OptionTextsUnique ==
    /\ \A p \in PollIds :
          \A a \in DOMAIN vote_count, b \in DOMAIN vote_count :
              (a # b /\ OptionPoll[a] = p /\ OptionPoll[b] = p) =>
                  lower(strip(OptionText[a])) # lower(strip(OptionText[b]))
    /\ \A r \in Reqs : req[r].response # "ServerError"

(***************************************************************************)
(* SpecEdit: the creator's PATCH requests on the two polls of the          *)
(* database, concurrent with the statements of the votes that an           *)
(* authenticated user casts (non-overlapping submissions).                 *)
(***************************************************************************)
EditInit ==
    /\ now = 0
    /\ poll = [p \in CommandPolls |->
                 [is_active |-> TRUE, expires_at |-> NoTime,
                  allow_multiple_votes |-> FALSE, total_votes |-> 0]]
    /\ vote_count = [o \in InitialOptions |-> 0]
    /\ votes = {}
    /\ req = [r \in Reqs |-> IdleReq]
    /\ dispatched = [p \in CommandPolls |-> 0]
    /\ cache = [p \in CommandPolls |-> NoEntry]
    /\ reader = [d \in Readers |-> IdleReader]
    /\ task = [t \in Tasks |-> IdleReader]
    /\ poll_result = [p \in CommandPolls |-> NoResult]
    /\ command = IdleCommand
    /\ editor = IdleEditor

EditNext ==
    \/ \E r \in Reqs, p \in CommandPolls, ctx \in CommandContexts :
          NoneInFlight /\ cast_vote(r, p, ctx, OptionTextOf(p))
    \/ \E r \in Reqs : OpenVoteStep(r)
    \/ \E r \in Reqs : validate_reason(r)
    \/ \E p \in CommandPolls, data \in EditData : PollDetailView_patch(p, data)
    \/ PollCreateSerializer_update_save

SpecEdit == EditInit /\ [][EditNext]_vars

\* C31: no step of the creator's update of a poll changes the stored
\* total_votes of any poll, whatever votes are written while the update
\* runs; total_votes changes only in steps of the vote path.
C31_UpdateLeavesTotalVotes ==
    [][editor' # editor =>
         /\ DOMAIN poll' = DOMAIN poll
         /\ \A p \in DOMAIN poll : poll'[p].total_votes = poll[p].total_votes]_vars

\* C37: a statement of a vote request on option o of poll p adds at most
\* the request's own vote record (for o, on p) and changes, of the stored
\* counters and poll fields, only o's vote_count and p's total_votes: the
\* other options, the other polls, the records of other votes and p's
\* is_active, expires_at and allow_multiple_votes stay as they are, also
\* when the creator's update has changed p since the request loaded it.
C37_VoteWritesOnlyItsCounters ==
    [][\A r \in Reqs :
         req'[r] # req[r] =>
            LET p == req'[r].poll_id
                o == req[r].option
            IN  /\ votes \subseteq votes'
                /\ \A v \in votes' \ votes : v.id = r /\ v.poll = p /\ v.option = o
                /\ DOMAIN vote_count' = DOMAIN vote_count
                /\ \A x \in DOMAIN vote_count : x # o => vote_count'[x] = vote_count[x]
                /\ DOMAIN poll' = DOMAIN poll
                /\ \A q \in DOMAIN poll :
                      /\ q # p => poll'[q] = poll[q]
                      /\ poll'[q].is_active = poll[q].is_active
                      /\ poll'[q].expires_at = poll[q].expires_at
                      /\ poll'[q].allow_multiple_votes = poll[q].allow_multiple_votes
                /\ poll_result' = poll_result]_vars

\* A vote on a poll that its creator closed after the request had loaded
\* it: the vote is counted and the poll is still closed.
C37_Witness ==
    \E r \in Reqs :
        /\ req[r].pc = "saved"
        /\ req[r].poll.is_active
        /\ ~poll[req[r].poll_id].is_active
        /\ poll[req[r].poll_id].total_votes = 1
        /\ vote_count[req[r].option] = 1
        /\ \E q \in DOMAIN poll : q # req[r].poll_id /\ poll[q].allow_multiple_votes

\* C35: once the creator's update has put the new options of a poll in the
\* place of the old ones, and no vote is being written, the poll's
\* total_votes equals the number of vote records that reference the poll
\* and the sum of the vote_count of its options.
C35_CountersAfterOptionReplacement ==
    \A p \in PollIds :
        (NoneInFlight /\ NewOptions(p) # {} /\ PollOptions(p) = NewOptions(p)) =>
            /\ poll[p].total_votes = poll_votes_count(p)
            /\ poll[p].total_votes = SumVoteCount(PollOptions(p))

(***************************************************************************)
(* SpecOrder: result reads of a poll whose options are replaced by lists   *)
(* in which two options have the same display order, and in which an       *)
(* option with a lower order has a later text.  The votes of the two       *)
(* authenticated users and the reads run one after another.                *)
(***************************************************************************)
OrderLists == {{"o3", "o4"}, {"o4", "o6"}, {"o3", "o4", "o6"}}

\* No results read is under way.
NoneReading == \A d \in Readers : reader[d].pc \in {"idle", "done"}

OrderNext ==
    \/ \E r \in Reqs, p \in PollIds, ctx \in ResultsContexts :
          NoneInFlight /\ NoneReading /\ cast_vote(r, p, ctx, "Dogs")
    \/ \E r \in Reqs : OpenVoteStep(r)
    \/ \E p \in PollIds, options \in OrderLists :
          NoneReading /\ PollCreateSerializer_update(p, options)
    \/ \E d \in Readers, p \in PollIds :
          NoneInFlight /\ NoneReading /\ poll_results(d, p)
    \/ \E d \in Readers : poll_results_get(d)
    \/ \E d \in Readers : poll_results_generate(d)
    \/ \E d \in Readers : poll_results_set(d)
    \/ \E p \in PollIds : cache_expire(p)

SpecOrder == ResultsInit /\ [][OrderNext]_vars

\* The options a snapshot lists are in ascending display order, those with
\* the same order in ascending text order, and none is listed twice.
InDisplayOrder(s) ==
    \A i, j \in DOMAIN s.options :
        i < j =>
            LET a == s.options[i].id
                b == s.options[j].id
            IN  /\ a # b
                /\ OptionOrder[a] <= OptionOrder[b]
                /\ OptionOrder[a] = OptionOrder[b] =>
                      TextRank(s.options[i].text) < TextRank(s.options[j].text)

\* C32: every snapshot, returned or cached, lists its options in ascending
\* display order, ties in ascending text order, none twice; and a snapshot
\* lists, when it is computed, exactly the options the poll has.
C32_OptionsInDisplayOrder ==
    /\ [](\A s \in Snapshots : InDisplayOrder(s))
    /\ [][\A d \in Readers :
            (reader[d].pc = "miss" /\ reader'[d].pc = "generated") =>
               LET s == reader'[d].results
               IN  /\ {s.options[i].id : i \in DOMAIN s.options}
                         = {o \in DOMAIN vote_count : OptionPoll[o] = reader[d].poll_id}
                   /\ \A i \in DOMAIN s.options :
                         s.options[i].text = OptionText[s.options[i].id]]_vars

\* A snapshot of three options: Cats and cats (order 0, in text order),
\* then Dogs (order 1, although its text comes before cats).
C32_Witness ==
    \E s \in Snapshots :
        /\ Len(s.options) = 3
        /\ s.options[1].text = "Cats"
        /\ s.options[2].text = "cats"
        /\ s.options[3].text = "Dogs"
        /\ s.options[3].vote_count = 1

\* C33: with votes that are only added and counters that are correct, no
\* cache.set (of a results read or of a refresh task) replaces the cached
\* snapshot of a poll by one computed from an earlier state of the
\* counters: the total_votes of a poll's cache entry never decreases from
\* one write to the next.
C33_CacheNeverRegresses ==
    [][\A p \in PollIds :
         (cache[p] # NoEntry /\ cache'[p] # NoEntry) =>
            cache'[p].value.total_votes >= cache[p].value.total_votes]_vars

(***************************************************************************)
(* SpecStale: the votes of the two authenticated users on one poll         *)
(* (non-overlapping submissions), the refresh tasks they dispatch, which   *)
(* a worker runs at any time or not at all, and runs of the command over   *)
(* every active poll.  A run starts when no vote and no task is between    *)
(* two of its statements, and no vote or task starts while a run is under  *)
(* way.  The database holds a PollResult row of the poll, or none.         *)
(***************************************************************************)
StaleInit ==
    /\ now = 0
    /\ poll = [p \in PollIds |->
                 [is_active |-> TRUE, expires_at |-> NoTime,
                  allow_multiple_votes |-> FALSE, total_votes |-> 0]]
    /\ vote_count = [o \in InitialOptions |-> 0]
    /\ votes = {}
    /\ req = [r \in Reqs |-> IdleReq]
    /\ dispatched = [p \in PollIds |-> 0]
    /\ cache = [p \in PollIds |-> NoEntry]
    /\ reader = [d \in Readers |-> IdleReader]
    /\ task = [t \in Tasks |-> IdleReader]
    /\ poll_result \in [PollIds -> {NoResult, [exists |-> TRUE, total_votes |-> 0]}]
    /\ command = IdleCommand
    /\ editor = IdleEditor

\* No run of the command is under way.
NoRun == command.pc \in {"idle", "done"}

\* No refresh task is between its first and its last statement.
NoTaskRunning == \A t \in Tasks : task[t].pc \in {"idle", "done", "failed"}

StaleNext ==
    \/ \E r \in Reqs, p \in PollIds, ctx \in ResultsContexts :
          NoneInFlight /\ NoRun /\ cast_vote(r, p, ctx, "Dogs")
    \/ \E r \in Reqs : OpenVoteStep(r)
    \/ \E t \in Tasks, p \in PollIds : NoRun /\ update_poll_results_async(t, p)
    \/ \E t \in Tasks : update_poll_results_async_generate(t)
    \/ \E t \in Tasks : update_poll_results_async_set(t)
    \/ \E t \in Tasks : update_poll_results_async_store(t)
    \/ \E force \in BOOLEAN :
          NoneInFlight /\ NoTaskRunning /\ Command_handle(force)
    \/ CommandStep

SpecStale == StaleInit /\ [][StaleNext]_vars

EarlierVotes(r) == {v \in votes : v.poll = req[r].poll_id /\ v.id < r}

\* C36: the record of an authenticated vote holds no address and no
\* session, that of an anonymous vote no user; an anonymous request is
\* rejected as a duplicate only when an earlier anonymous vote of the poll
\* has its address or its session, and an authenticated request only when
\* an earlier vote of the poll is the user's own: no vote of the other
\* channel, from the same address and session or not, causes the rejection.
C36_ChannelsIndependent ==
    /\ \A r \in Reqs : \A v \in {w \in votes : w.id = r} :
          IF req[r].ctx.user # None
          THEN v.voter = req[r].ctx.user /\ v.voter_ip = None /\ v.voter_session = None
          ELSE v.voter = None
    /\ \A r \in Reqs :
          req[r].response = "AlreadyVoted" =>
             IF req[r].ctx.user # None
             THEN \E v \in EarlierVotes(r) : v.voter = req[r].ctx.user
             ELSE \E v \in EarlierVotes(r) :
                     /\ v.voter = None
                     /\ \/ (v.voter_ip # None /\ v.voter_ip = req[r].ctx.remote_addr)
                        \/ (v.voter_session # None
                              /\ v.voter_session = req[r].ctx.session_key)

\* On a poll with allow_multiple_votes = false, an authenticated and an
\* anonymous request from the same address and session have both been
\* recorded.
C36_Witness ==
    \E r1 \in Reqs, r2 \in Reqs :
        /\ req[r1].pc = "done" /\ req[r1].response = "Created"
        /\ req[r2].pc = "done" /\ req[r2].response = "Created"
        /\ req[r1].poll_id = req[r2].poll_id
        /\ ~poll[req[r1].poll_id].allow_multiple_votes
        /\ req[r1].ctx.user # None
        /\ req[r2].ctx.user = None
        /\ req[r1].ctx.remote_addr = req[r2].ctx.remote_addr
        /\ req[r1].ctx.session_key = req[r2].ctx.session_key
        /\ req[r2].ctx.session_key # None
        /\ Cardinality(votes) = 2

====
